---- MODULE Spec2Model ----
(***************************************************************************)
(* Verification model of node-red-contrib-sunspec-scan:                     *)
(*   - the Modbus TCP connection pool (connection-manager.js),             *)
(*   - the engine operations that open transport sessions,                 *)
(*   - the auto-read retry scheduler (sunspec-scan.ts, executeRead),       *)
(*   - the SunSpec model chain walk (utils findModelAddress).              *)
(***************************************************************************)
EXTENDS Integers, Sequences, FiniteSets, TLC

\* ------------------------------------------------------------------------
\* Bounds of the model
\* ------------------------------------------------------------------------
\* number of request() submissions explored
MaxReq == 2
\* number of sessions _connect establishes in the explored runs
MaxSess == 2
\* number of engine operations with a private session explored at a time
MaxDirect == 1
\* cap on auto-read cycles in flight or waiting for a retry timer
MaxCycles == 2
\* cap on the consecutive-failure counter
MaxFailures == 7
\* number of header records of the explored model chains
MaxChain == 3
\* header reads of one chain walk that are explored
MaxHops == 6
\* number of readSinglePoint calls explored
MaxReads == 3

\* ------------------------------------------------------------------------
\* Connection pool: constants of the code
\* ------------------------------------------------------------------------
\* the (host,port) keys `${ip}:${port}` the callers address
Keys == {"10.0.0.5:502"}

IDLE_TIMEOUT == 20000
\* period of the cleanup interval
SWEEP_INTERVAL == 5000

\* the fatal indicators _isFatalError looks for in error.message
fatalErrors == {"ECONNRESET", "EPIPE", "ETIMEDOUT", "Port Not Open", "Transaction timed out"}

\* An error object is modelled by the set of text fragments its message
\* contains; NoMessage is an error without a message property.
NoMessage == {"<no message>"}
Errors ==
    {{e} : e \in fatalErrors}
    \cup {{"Illegal data address"}, {"Read failed", "Port Not Open"}, NoMessage}

\* the faults the transport raises in the explored runs
Faults == {{"Port Not Open"}, {"Read failed", "Transaction timed out"}, {"Illegal data address"}}

\* error.message.includes(e)
Includes(error, e) == error # NoMessage /\ e \in error

IsFatalErrorAlways(error) == TRUE

\* _isFatalError(error)
IsFatalError(error) == \E e \in fatalErrors : error # NoMessage /\ Includes(error, e)

ReqIds == 1..MaxReq
\* every request creates at most one pool entry
EntryIds == 1..MaxReq
SessIds == 1..MaxSess

VARIABLES
    \* --- connection pool ---
    pool,        \* this.pool : key -> entry id, 0 when the key is absent
    nent,        \* number of pool entry objects created so far
    eClient,     \* entry.client : session id, 0 for null
    idle,        \* Date.now() - entry.lastActive of the key's pooled entry
    eQueue,      \* entry.queue : the unsettled requests chained on the entry, in order
    nreq,        \* number of request() calls made so far
    rKey,        \* key of the request
    rEntry,      \* the entry the request's closure captured
    rPc,         \* position of the request's queued body
    rClient,     \* the client handed to the request's action, 0 if none
    nsess,       \* number of sessions established by _connect
    sKey,        \* key the session is connected to
    sOpen,       \* client.isOpen
    sCloseCalled,\* client.close() was called on the session
    sFaulted,    \* an action failed on the session with a fatal error
    lastErr      \* the error of the most recently rejected request

poolVars == <<pool, nent, eClient, idle, eQueue, nreq, rKey, rEntry, rPc, rClient,
              nsess, sKey, sOpen, sCloseCalled, sFaulted, lastErr>>

VARIABLES
    \* --- engine operations that open their own ModbusRTU client ---
    dOp,         \* the operation of the instance, "none" before it is called
    dPc          \* position of the operation

directVars == <<dOp, dPc>>

VARIABLES
    \* --- auto-read retry scheduler of one node ---
    inFlight,          \* triggerScan promises started by executeRead and not settled
    intervalId,        \* the steady timer handle: "null", "armed" or "cleared"
    retryTimers,       \* one-shot retry timers armed by setTimeout and not yet fired
    retryTimeoutId,    \* retryTimeoutId holds the handle of a pending retry timer
    consecutiveErrors, \* node.connectionState.consecutiveErrors
    delay,             \* the delay passed to the last setTimeout of the catch branch
    lastSettle,        \* outcome of the most recently settled cycle
    closed,            \* the node's 'close' handler has run
    lastCause          \* the error the most recently failed cycle was rejected with

retryVars == <<inFlight, intervalId, retryTimers, retryTimeoutId, consecutiveErrors,
               delay, lastSettle, closed, lastCause>>

VARIABLES
    \* --- findModelAddress(client, modelId, baseAddr) on one device ---
    wChain,      \* the device's header chain: sequence of <<blockId, length>>
    wFill,       \* content of the payload registers of the device
    wTarget,     \* modelId
    wBaseArg,    \* the baseAddr argument, NullAddr for null
    wPc,         \* "idle", "base", "walk", "returned", "threw"
    wAddr,       \* addr
    wResult,     \* the returned address
    wEndless,    \* the device has no end marker: zeroed registers follow its chain
    wHops        \* header reads the while loop has issued in this call

walkVars == <<wChain, wFill, wTarget, wBaseArg, wPc, wAddr, wResult, wEndless, wHops>>

VARIABLES
    \* --- readSinglePoint of one node and its model address cache ---
    cacheTop,      \* the keys present in node.modelAddressCache
    cacheAddr,     \* node.modelAddressCache[cacheKey][modelId.toString()], 0 for undefined
    rdCalls,       \* number of readSinglePoint calls made so far
    rdDev,         \* cacheKey of the last call
    rdModel,       \* modelId of the last call
    rdHeaderReads, \* chain-walk header reads issued by the last call
    rdResolved,    \* the <<cacheKey, modelId>> whose address a call has resolved
    rdOutcome,     \* how the last call ended
    rdPoint        \* pointName of the last call

readVars == <<cacheTop, cacheAddr, rdCalls, rdDev, rdModel, rdHeaderReads, rdResolved,
              rdOutcome, rdPoint>>

VARIABLES
    \* --- one fetchPointValue call on one model block ---
    fpPoint,        \* pointName
    fpRegs,         \* the registers of the block, from modelAddr on
    fpRound,        \* node.roundDecimals
    fpSfFails,      \* the read of the scale-factor register is rejected
    fpPc,           \* "idle", "ready" before the call, "done" after it
    fpResult        \* the returned value

decodeVars == <<fpPoint, fpRegs, fpRound, fpSfFails, fpPc, fpResult>>

VARIABLES
    \* --- one parseUnitIds call ---
    puStr,         \* unitIdStr, a sequence of characters
    puPc,          \* "idle", "ready" before the call, "done" after it
    puResult       \* the returned value

parseVars == <<puStr, puPc, puResult>>

VARIABLES
    \* --- one parseIpRange call ---
    ipStr,         \* ipStr, a sequence of characters
    ipIfaces,      \* what getLocalInterfaces returns
    ipPc,          \* "idle", "ready" before the call, "done" after it
    ipResult       \* the returned array of address strings

ipVars == <<ipStr, ipIfaces, ipPc, ipResult>>

VARIABLES
    \* --- one scanUnitIds call of the discover endpoint ---
    scPort,        \* port
    scOverride,    \* idsToCheckOverride, <<>> for undefined
    scDevice,      \* the unit IDs of the host that answer each marker read
    scStop,        \* activeScan.stop
    scPc,          \* "idle", "connecting", "loop", "done", "failed"
    scIds,         \* idsToCheck
    scIdx,         \* number of IDs the for loop has taken
    scProbed,      \* the IDs probed so far, in order
    scFound,       \* foundIds
    scBroke,       \* the loop has been left on shouldStop()
    scClosed       \* client.close() has been called

scanVars == <<scPort, scOverride, scDevice, scStop, scPc, scIds, scIdx, scProbed, scFound, scBroke,
              scClosed>>

VARIABLES
    \* --- one triggerScan in list mode ---
    lsItems,       \* node.outputList
    lsDev,         \* how each device behaves: "ok", "down", "fault"
    lsRound,       \* node.roundDecimals
    lsPc,          \* "idle", "reading", "sent"
    lsIdx,         \* number of groups the for loop has taken
    lsFailed,      \* the devices whose readMultiplePoints call has thrown
    lsFinal        \* finalArray

listVars == <<lsItems, lsDev, lsRound, lsPc, lsIdx, lsFailed, lsFinal>>

VARIABLES
    \* --- the action of one writeSinglePoint call ---
    wrModel,       \* modelId
    wrPoint,       \* pointName
    wrValue,       \* value
    wrWalk,        \* what findModelAddress does on the device: "found", "absent", "throws"
    wrCached,      \* node.modelAddressCache holds an address for the model
    wrPc,          \* "idle", "ready", "writing", "done"
    wrWrites,      \* the writeRegisters calls issued, as <<address, words>>
    wrResult,      \* "none", "true", "error"
    wrErr          \* message of the error thrown

writeVars == <<wrModel, wrPoint, wrValue, wrWalk, wrCached, wrPc, wrWrites, wrResult, wrErr>>

VARIABLES
    \* --- node.connectionState and the operations that touch it ---
    hsNow,         \* the clock new Date() reads
    hsLastSuccess, \* connectionState.lastSuccess, 0 for null
    hsLastError,   \* connectionState.lastError, 0 for null
    hsErrors,      \* connectionState.consecutiveErrors
    hsOp           \* the operation that ran last

healthVars == <<hsNow, hsLastSuccess, hsLastError, hsErrors, hsOp>>

VARIABLES
    \* --- the runs of POST /sunspec-scan/discover and the shared activeScan ---
    dsStop,        \* activeScan.stop
    dsPc,          \* per run: "idle", "atHost", "checkPort", "atId", "probe", "done"
    dsHost,        \* per run: number of hosts taken from ips
    dsId,          \* per run: number of unit IDs taken for the current host
    dsCancelled,   \* per run: /sunspec-scan/stop was posted while the run was in flight
    dsWork         \* per run: number of hosts and unit IDs work was started on

discoverVars == <<dsStop, dsPc, dsHost, dsId, dsCancelled, dsWork>>

VARIABLES
    \* --- base-address resolution of the four chain walkers ---
    baPath,        \* the function that resolves the base
    baMarker,      \* the two registers at 40000, <<>> when the read is rejected
    baSma,         \* the 32-bit value at 30051, -1 when the read is rejected
    baPc,          \* "idle", "start", "walk", "null", "empty", "sma"
    baAddr         \* address of the first header read by the walk

baseVars == <<baPath, baMarker, baSma, baPc, baAddr>>

VARIABLES
    \* --- the operations that locate the fields of one block ---
    bkPoints,      \* models[modelId].group.points
    bkRegs,        \* the registers of the block, from modelAddr on
    bkPoint,       \* pointName
    bkLen,         \* modelLen, the length the block header announces
    bkPc,          \* "idle", "ready", "done"
    bkOp,          \* the function that ran
    bkValue,       \* what fetchPointValue returned
    bkValueAt,     \* offset of the value read or of the write, -1 when none is made
    bkSfAt,        \* offset of the scale-factor read, -1 when none is made
    bkScan,        \* what scanImplementedPoints returned
    bkReads,       \* register reads scanImplementedPoints issued
    bkFailed       \* the block read of scanImplementedPoints was rejected

blockVars == <<bkPoints, bkRegs, bkPoint, bkLen, bkPc, bkOp, bkValue, bkValueAt, bkSfAt, bkScan,
               bkReads, bkFailed>>

vars == <<poolVars, directVars, retryVars, walkVars, readVars, decodeVars, parseVars, ipVars,
          scanVars, listVars, writeVars, healthVars, discoverVars, baseVars, blockVars>>

\* what the operations of one component leave alone
nonPoolVars == <<directVars, retryVars, walkVars, readVars, decodeVars, parseVars, ipVars, scanVars, listVars, writeVars, healthVars, discoverVars, baseVars, blockVars>>
nonDirectVars == <<poolVars, retryVars, walkVars, readVars, decodeVars, parseVars, ipVars, scanVars, listVars, writeVars, healthVars, discoverVars, baseVars, blockVars>>
nonRetryVars == <<poolVars, directVars, walkVars, readVars, decodeVars, parseVars, ipVars, scanVars, listVars, writeVars, healthVars, discoverVars, baseVars, blockVars>>
nonWalkVars == <<poolVars, directVars, retryVars, readVars, decodeVars, parseVars, ipVars, scanVars, listVars, writeVars, healthVars, discoverVars, baseVars, blockVars>>
nonReadVars == <<poolVars, directVars, retryVars, walkVars, decodeVars, parseVars, ipVars, scanVars, listVars, writeVars, healthVars, discoverVars, baseVars, blockVars>>
nonDecodeVars == <<poolVars, directVars, retryVars, walkVars, readVars, parseVars, ipVars, scanVars, listVars, writeVars, healthVars, discoverVars, baseVars, blockVars>>
nonParseVars == <<poolVars, directVars, retryVars, walkVars, readVars, decodeVars, ipVars, scanVars, listVars, writeVars, healthVars, discoverVars, baseVars, blockVars>>
nonIpVars == <<poolVars, directVars, retryVars, walkVars, readVars, decodeVars, parseVars, scanVars, listVars, writeVars, healthVars, discoverVars, baseVars, blockVars>>
nonScanVars == <<poolVars, directVars, retryVars, walkVars, readVars, decodeVars, parseVars, ipVars, listVars, writeVars, healthVars, discoverVars, baseVars, blockVars>>
nonListVars == <<poolVars, directVars, retryVars, walkVars, readVars, decodeVars, parseVars, ipVars, scanVars, writeVars, healthVars, discoverVars, baseVars, blockVars>>
nonWriteVars == <<poolVars, directVars, retryVars, walkVars, readVars, decodeVars, parseVars, ipVars, scanVars, listVars, healthVars, discoverVars, baseVars, blockVars>>
nonHealthVars == <<poolVars, directVars, retryVars, walkVars, readVars, decodeVars, parseVars, ipVars, scanVars, listVars, writeVars, discoverVars, baseVars, blockVars>>
nonDiscoverVars == <<poolVars, directVars, retryVars, walkVars, readVars, decodeVars, parseVars, ipVars, scanVars, listVars, writeVars, healthVars, baseVars, blockVars>>
nonBaseVars == <<poolVars, directVars, retryVars, walkVars, readVars, decodeVars, parseVars, ipVars, scanVars, listVars, writeVars, healthVars, discoverVars, blockVars>>
nonBlockVars == <<poolVars, directVars, retryVars, walkVars, readVars, decodeVars, parseVars, ipVars, scanVars, listVars, writeVars, healthVars, discoverVars, baseVars>>

NoErr == {}
NoKey == "<none>"

PoolInit ==
    /\ pool = [k \in Keys |-> 0]
    /\ nent = 0
    /\ eClient = [e \in EntryIds |-> 0]
    /\ idle = [k \in Keys |-> 0]
    /\ eQueue = [e \in EntryIds |-> <<>>]
    /\ nreq = 0
    /\ rKey = [r \in ReqIds |-> NoKey]
    /\ rEntry = [r \in ReqIds |-> 0]
    /\ rPc = [r \in ReqIds |-> "none"]
    /\ rClient = [r \in ReqIds |-> 0]
    /\ nsess = 0
    /\ sKey = [s \in SessIds |-> NoKey]
    /\ sOpen = [s \in SessIds |-> FALSE]
    /\ sCloseCalled = [s \in SessIds |-> FALSE]
    /\ sFaulted = [s \in SessIds |-> FALSE]
    /\ lastErr = NoErr

\* ------------------------------------------------------------------------
\* invalidate(ip, port): the effect on pool and on the sessions' close flag
\* ------------------------------------------------------------------------
PoolKept(k) == pool
PoolAfterInvalidate(k) == [pool EXCEPT ![k] = 0]

\* the deleted entry's lastActive is never read again
IdleAfterInvalidate(k) == [idle EXCEPT ![k] = 0]

ClosedAfterInvalidate(k) ==
    IF pool[k] # 0 /\ eClient[pool[k]] # 0
    THEN [sCloseCalled EXCEPT ![eClient[pool[k]]] = TRUE]
    ELSE sCloseCalled

\* invalidate(ip, port)
DoInvalidate(k) ==
    /\ pool' = PoolAfterInvalidate(k)
    /\ sCloseCalled' = ClosedAfterInvalidate(k)
    /\ idle' = IdleAfterInvalidate(k)

SettleNone(r) == eQueue

\* the promise of request r settles: the next continuation of the chain may run
Settle(r) == [eQueue EXCEPT ![rEntry[r]] = Tail(@)]

\* request(ip, port, unitId, action, timeout): get or create the entry,
\* refresh lastActive, chain the body on entry.queue
Request(k) ==
    /\ nreq < MaxReq
    /\ LET r == nreq + 1
           fresh == pool[k] = 0
           e == IF fresh THEN nent + 1 ELSE pool[k]
       IN /\ nreq' = r
          /\ nent' = IF fresh THEN nent + 1 ELSE nent
          /\ pool' = [pool EXCEPT ![k] = e]
          /\ idle' = [idle EXCEPT ![k] = 0]
          /\ eQueue' = [eQueue EXCEPT ![e] = Append(@, r)]
          /\ rKey' = [rKey EXCEPT ![r] = k]
          /\ rEntry' = [rEntry EXCEPT ![r] = e]
          /\ rPc' = [rPc EXCEPT ![r] = "queued"]
    /\ UNCHANGED <<eClient, rClient, nsess, sKey, sOpen, sCloseCalled, sFaulted, lastErr>>
    /\ UNCHANGED nonPoolVars

\* client && client.isOpen
Healthy(c) == IF c = 0 THEN FALSE ELSE sOpen[c]

\* the body chained on entry.queue starts: acquire the client
StartReuse(r) ==
    /\ rPc[r] = "queued"
    /\ Head(eQueue[rEntry[r]]) = r
    /\ LET c == eClient[rEntry[r]]
       IN /\ Healthy(c)
          /\ rPc' = [rPc EXCEPT ![r] = "running"]
          /\ rClient' = [rClient EXCEPT ![r] = c]
    /\ UNCHANGED <<pool, nent, eClient, idle, eQueue, nreq, rKey, rEntry,
                   nsess, sKey, sOpen, sCloseCalled, sFaulted, lastErr>>
    /\ UNCHANGED nonPoolVars

StartConnect(r) ==
    /\ rPc[r] = "queued"
    /\ Head(eQueue[rEntry[r]]) = r
    /\ LET c == eClient[rEntry[r]]
       IN /\ ~Healthy(c)
          /\ rPc' = [rPc EXCEPT ![r] = "connecting"]
    /\ UNCHANGED <<pool, nent, eClient, idle, eQueue, nreq, rKey, rEntry, rClient,
                   nsess, sKey, sOpen, sCloseCalled, sFaulted, lastErr>>
    /\ UNCHANGED nonPoolVars

\* _connect resolved: handlers registered, entry.client = client, setID, action(client)
ConnectOk(r) ==
    /\ rPc[r] = "connecting"
    /\ nsess < MaxSess
    /\ LET s == nsess + 1
       IN /\ nsess' = s
          /\ sKey' = [sKey EXCEPT ![s] = rKey[r]]
          /\ sOpen' = [sOpen EXCEPT ![s] = TRUE]
          /\ eClient' = [eClient EXCEPT ![rEntry[r]] = s]
          /\ rClient' = [rClient EXCEPT ![r] = s]
          /\ rPc' = [rPc EXCEPT ![r] = "running"]
    /\ UNCHANGED <<pool, nent, idle, eQueue, nreq, rKey, rEntry, sCloseCalled, sFaulted, lastErr>>
    /\ UNCHANGED nonPoolVars

\* _connect rejected: invalidate and rethrow
ConnectFail(r, err) ==
    /\ rPc[r] = "connecting"
    /\ DoInvalidate(rKey[r])
    /\ rPc' = [rPc EXCEPT ![r] = "rejected"]
    /\ eQueue' = Settle(r)
    /\ lastErr' = err
    /\ UNCHANGED <<nent, eClient, nreq, rKey, rEntry, rClient, nsess, sKey, sOpen, sFaulted>>
    /\ UNCHANGED nonPoolVars

\* action(client) resolved: the 100 ms cool-down timer is started
ActionOk(r) ==
    /\ rPc[r] = "running"
    /\ rPc' = [rPc EXCEPT ![r] = "cooldown"]
    /\ UNCHANGED <<pool, nent, eClient, idle, eQueue, nreq, rKey, rEntry, rClient,
                   nsess, sKey, sOpen, sCloseCalled, sFaulted, lastErr>>
    /\ UNCHANGED nonPoolVars

\* the cool-down timer fired: the request resolves
CooldownDone(r) ==
    /\ rPc[r] = "cooldown"
    /\ rPc' = [rPc EXCEPT ![r] = "resolved"]
    /\ eQueue' = Settle(r)
    /\ UNCHANGED <<pool, nent, eClient, idle, nreq, rKey, rEntry, rClient,
                   nsess, sKey, sOpen, sCloseCalled, sFaulted, lastErr>>
    /\ UNCHANGED nonPoolVars

ClientAfterFailKeep(r, err) == eClient

\* entry.client after the catch block of step C
ClientAfterFail(r, err) ==
    IF IsFatalError(err) THEN [eClient EXCEPT ![rEntry[r]] = 0] ELSE eClient

\* action(client) rejected: invalidate on a fatal error, rethrow
ActionFail(r, err) ==
    /\ rPc[r] = "running"
    /\ IF IsFatalError(err)
       THEN DoInvalidate(rKey[r])
       ELSE UNCHANGED <<pool, sCloseCalled, idle>>
    /\ eClient' = ClientAfterFail(r, err)
    /\ sFaulted' = [sFaulted EXCEPT ![rClient[r]] = @ \/ (\E e \in fatalErrors : Includes(err, e))]
    /\ rPc' = [rPc EXCEPT ![r] = "rejected"]
    /\ eQueue' = Settle(r)
    /\ lastErr' = err
    /\ UNCHANGED <<nent, nreq, rKey, rEntry, rClient, nsess, sKey, sOpen>>
    /\ UNCHANGED nonPoolVars

\* invalidate(ip, port) called from outside a queued body
Invalidate(k) ==
    /\ pool[k] # 0
    /\ DoInvalidate(k)
    /\ UNCHANGED <<nent, eClient, eQueue, nreq, rKey, rEntry, rPc, rClient,
                   nsess, sKey, sOpen, sFaulted, lastErr>>
    /\ UNCHANGED nonPoolVars

\* reportError(ip, port, error)
ReportError(k, err) ==
    /\ pool[k] # 0
    /\ IsFatalError(err)
    /\ DoInvalidate(k)
    /\ UNCHANGED <<nent, eClient, eQueue, nreq, rKey, rEntry, rPc, rClient,
                   nsess, sKey, sOpen, sFaulted, lastErr>>
    /\ UNCHANGED nonPoolVars

\* client.on('error') handler of an established session
SessionError(s) ==
    /\ s <= nsess
    /\ sOpen[s]
    /\ pool[sKey[s]] # 0
    /\ DoInvalidate(sKey[s])
    /\ UNCHANGED <<nent, eClient, eQueue, nreq, rKey, rEntry, rPc, rClient,
                   nsess, sKey, sOpen, sFaulted, lastErr>>
    /\ UNCHANGED nonPoolVars

\* the socket of a session closes (peer or after close()): isOpen turns false
\* and, when notify, the client.on('close') handler runs
SessionClose(s, notify) ==
    /\ s <= nsess
    /\ sOpen[s]
    /\ notify \/ sCloseCalled[s]
    /\ sOpen' = [sOpen EXCEPT ![s] = FALSE]
    /\ IF notify
       THEN DoInvalidate(sKey[s])
       ELSE UNCHANGED <<pool, sCloseCalled, idle>>
    /\ UNCHANGED <<nent, eClient, eQueue, nreq, rKey, rEntry, rPc, rClient,
                   nsess, sKey, sFaulted, lastErr>>
    /\ UNCHANGED nonPoolVars

ExpiredAtThreshold(k) == pool[k] # 0 /\ idle[k] + SWEEP_INTERVAL >= IDLE_TIMEOUT

\* now - entry.lastActive > this.IDLE_TIMEOUT, SWEEP_INTERVAL ms later
Expired(k) == pool[k] # 0 /\ idle[k] + SWEEP_INTERVAL > IDLE_TIMEOUT

\* SWEEP_INTERVAL ms pass and the cleanup interval callback runs
Sweep ==
    /\ \E k \in Keys : pool[k] # 0
    /\ idle' = [k \in Keys |-> IF pool[k] = 0 \/ Expired(k) THEN 0 ELSE idle[k] + SWEEP_INTERVAL]
    /\ pool' = [k \in Keys |-> IF Expired(k) THEN 0 ELSE pool[k]]
    /\ sCloseCalled' = [s \in SessIds |->
                          sCloseCalled[s]
                          \/ \E k \in Keys : Expired(k) /\ eClient[pool[k]] = s]
    /\ UNCHANGED <<nent, eClient, eQueue, nreq, rKey, rEntry, rPc, rClient,
                   nsess, sKey, sOpen, sFaulted, lastErr>>
    /\ UNCHANGED nonPoolVars

PoolNext ==
    \/ \E k \in Keys : Request(k)
    \/ \E r \in ReqIds : StartReuse(r)
    \/ \E r \in ReqIds : StartConnect(r)
    \/ \E r \in ReqIds : ConnectOk(r)
    \/ \E r \in ReqIds, err \in Faults : ConnectFail(r, err)
    \/ \E r \in ReqIds : ActionOk(r)
    \/ \E r \in ReqIds : CooldownDone(r)
    \/ \E r \in ReqIds, err \in Faults : ActionFail(r, err)
    \/ \E k \in Keys : Invalidate(k)
    \/ \E k \in Keys, err \in Faults : ReportError(k, err)
    \/ \E s \in SessIds : SessionError(s)
    \/ \E s \in SessIds, notify \in BOOLEAN : SessionClose(s, notify)
    \/ Sweep

\* ------------------------------------------------------------------------
\* Engine operations and the session they use
\* ------------------------------------------------------------------------
\* readSinglePoint and writeSinglePoint run inside connManager.request (Request above)
PooledOps == {"readSinglePoint", "writeSinglePoint"}
\* these create their own client with new ModbusRTU() and connectTCP
DirectOps == {"readMultiplePoints", "scanUnitIds", "scanDeviceModelsOnly", "readSunSpecDevice"}

DirectIds == 1..MaxDirect

DirectInit ==
    /\ dOp = [d \in DirectIds |-> "none"]
    /\ dPc = [d \in DirectIds |-> "idle"]

\* const client = new ModbusRTU(); await client.connectTCP(ip, { port })
DirectBegin(d, op) ==
    /\ dPc[d] = "idle"
    /\ dOp' = [dOp EXCEPT ![d] = op]
    /\ dPc' = [dPc EXCEPT ![d] = "connecting"]
    /\ UNCHANGED nonDirectVars

\* connectTCP resolved: setID, setTimeout, register reads are issued on the client
DirectConnectOk(d) ==
    /\ dPc[d] = "connecting"
    /\ dPc' = [dPc EXCEPT ![d] = "reading"]
    /\ UNCHANGED dOp
    /\ UNCHANGED nonDirectVars

\* connectTCP rejected: catch, finally client.close()
DirectConnectFail(d) ==
    /\ dPc[d] = "connecting"
    /\ dPc' = [dPc EXCEPT ![d] = "closed"]
    /\ UNCHANGED dOp
    /\ UNCHANGED nonDirectVars

\* the reads are over (result or fault): finally client.close()
DirectFinish(d) ==
    /\ dPc[d] = "reading"
    /\ dPc' = [dPc EXCEPT ![d] = "closed"]
    /\ UNCHANGED dOp
    /\ UNCHANGED nonDirectVars

DirectNext ==
    \/ \E d \in DirectIds, op \in DirectOps : DirectBegin(d, op)
    \/ \E d \in DirectIds : DirectConnectOk(d)
    \/ \E d \in DirectIds : DirectConnectFail(d)
    \/ \E d \in DirectIds : DirectFinish(d)

\* ------------------------------------------------------------------------
\* Retry scheduler: executeRead, the steady interval and the backoff retry
\* ------------------------------------------------------------------------
BASE_RETRY_DELAY == 1000
MAX_RETRY_DELAY == 30000
\* the cap written in the catch branch of executeRead
RETRY_CAP == 60000

Min(a, b) == IF a < b THEN a ELSE b

\* Math.min(retryDelay * Math.pow(2, consecutiveErrors - 1), 60000)
RetryDelay(n) == Min(BASE_RETRY_DELAY * 2^(n - 1), RETRY_CAP)

ErrorsAfterSuccessKept(n) == n

\* node.connectionState.consecutiveErrors = 0
ErrorsAfterSuccess(n) == 0

\* executeRead(); intervalId = setInterval(executeRead, node.pacing * 1000)
RetryInit ==
    /\ inFlight = 1
    /\ intervalId = "armed"
    /\ retryTimers = 0
    /\ retryTimeoutId = FALSE
    /\ consecutiveErrors = 0
    /\ delay = 0
    /\ lastSettle = "none"
    /\ closed = FALSE
    /\ lastCause = "none"

\* the steady timer fires: executeRead()
IntervalFire ==
    /\ intervalId = "armed"
    /\ inFlight + retryTimers < MaxCycles
    /\ inFlight' = inFlight + 1
    /\ UNCHANGED <<intervalId, retryTimers, retryTimeoutId, consecutiveErrors, delay, lastSettle,
                   closed, lastCause>>
    /\ UNCHANGED nonRetryVars

\* a retry timer fires: retryTimeoutId = null; executeRead()
RetryFire ==
    /\ retryTimers > 0
    /\ retryTimers' = retryTimers - 1
    /\ retryTimeoutId' = FALSE
    /\ inFlight' = inFlight + 1
    /\ UNCHANGED <<intervalId, consecutiveErrors, delay, lastSettle, closed, lastCause>>
    /\ UNCHANGED nonRetryVars

\* triggerScan resolved: the .then handler
CycleSuccess ==
    /\ inFlight > 0
    /\ inFlight' = inFlight - 1
    /\ consecutiveErrors' = ErrorsAfterSuccess(consecutiveErrors)
    /\ lastSettle' = "success"
    /\ intervalId' = IF intervalId = "null" THEN "armed" ELSE intervalId
    /\ UNCHANGED <<retryTimers, retryTimeoutId, delay, closed, lastCause>>
    /\ UNCHANGED nonRetryVars

\* the errors triggerScan rejects with: what readSinglePoint throws
CycleErrors == {"SunSpecModelNotFoundError", "Timeout", "Read failed"}

\* triggerScan rejected with err: the .catch handler
CycleFailure(err) ==
    /\ inFlight > 0
    /\ lastCause' = err
    /\ consecutiveErrors < MaxFailures
    /\ inFlight' = inFlight - 1
    /\ consecutiveErrors' = consecutiveErrors + 1
    /\ lastSettle' = "failure"
    /\ delay' = RetryDelay(consecutiveErrors + 1)
    /\ intervalId' = "null"
    /\ retryTimers' = retryTimers + 1
    /\ retryTimeoutId' = TRUE
    /\ UNCHANGED closed
    /\ UNCHANGED nonRetryVars

\* node.on('close'): clearInterval(intervalId), clearTimeout(retryTimeoutId)
NodeClose ==
    /\ ~closed
    /\ closed' = TRUE
    /\ intervalId' = IF intervalId = "armed" THEN "cleared" ELSE intervalId
    /\ retryTimers' = IF retryTimeoutId THEN retryTimers - 1 ELSE retryTimers
    /\ UNCHANGED <<inFlight, retryTimeoutId, consecutiveErrors, delay, lastSettle, lastCause>>
    /\ UNCHANGED nonRetryVars

RetryNext ==
    \/ IntervalFire
    \/ RetryFire
    \/ CycleSuccess
    \/ \E err \in CycleErrors : CycleFailure(err)
    \/ NodeClose

\* ------------------------------------------------------------------------
\* Model chain walk: findModelAddress(client, modelId, baseAddr)
\* ------------------------------------------------------------------------
BASE_ADDR_40000 == 40000
BASE_ADDR_40002 == 40002
BASE_ADDR_50000 == 50000
MODEL_END_MARKER == 65535
\* 0x5375 and 0x6e53
SUNSPEC_ID_HIGH == 21365
SUNSPEC_ID_LOW == 28243
\* baseAddr = null
NullAddr == -2
\* return -1
NotFound == -1

\* block ids and lengths of the explored devices, and the ids looked for
BlockIds == {1, 103, 802}
BlockLens == {0, 1, 50}
Targets == {1, 103, 999}
Fills == {0, 103}
BaseArgs == {NullAddr, BASE_ADDR_50000}

RECURSIVE ChainsOfLen(_)
ChainsOfLen(n) ==
    IF n = 0 THEN {<<>>}
    ELSE {<<h>> \o c : h \in BlockIds \X BlockLens, c \in ChainsOfLen(n - 1)}

Chains == UNION {ChainsOfLen(n) : n \in 0..MaxChain}

\* the registers of the device from the address of its first header on:
\* header, payload, ..., end marker
RECURSIVE Registers(_, _)
Registers(chain, fill) ==
    IF chain = <<>> THEN <<MODEL_END_MARKER, 0>>
    ELSE <<chain[1][1], chain[1][2]>> \o [i \in 1..chain[1][2] |-> fill]
         \o Registers(Tail(chain), fill)

\* address of the device's first header: where the walk of this call starts
DeviceBase == IF wBaseArg = NullAddr THEN BASE_ADDR_40002 ELSE wBaseArg

\* client.readHoldingRegisters(addr, 2) answered by the device: the two words,
\* or <<>> for an illegal-address exception
ReadHeader(addr) ==
    LET regs == Registers(wChain, wFill)
        off == addr - DeviceBase
        \* register of a device without end marker: zero behind the chain
        word(i) == IF i <= Len(regs) - 2 THEN regs[i] ELSE 0
    IN IF wEndless
       THEN IF off >= 0 THEN <<word(off + 1), word(off + 2)>> ELSE <<>>
       ELSE IF off >= 0 /\ off + 2 <= Len(regs) THEN <<regs[off + 1], regs[off + 2]>> ELSE <<>>

\* the base chosen after the marker read at BASE_ADDR_40000
BaseAfterMarker(marker) ==
    IF marker = <<SUNSPEC_ID_HIGH, SUNSPEC_ID_LOW>> THEN BASE_ADDR_40002 ELSE BASE_ADDR_40002

AdvanceNoHeader(addr, length) == addr + length

\* addr += 2 + length
Advance(addr, length) == addr + 2 + length

WalkIdle ==
    /\ wChain = <<>>
    /\ wFill = 0
    /\ wTarget = 1
    /\ wBaseArg = NullAddr
    /\ wPc = "idle"
    /\ wAddr = 0
    /\ wResult = NullAddr
    /\ wEndless = FALSE
    /\ wHops = 0

\* a call of findModelAddress on some device
WalkInit ==
    /\ wChain \in Chains
    /\ wFill \in Fills
    /\ wTarget \in Targets
    /\ wBaseArg \in BaseArgs
    /\ wPc = "base"
    /\ wAddr = 0
    /\ wResult = NullAddr
    /\ wEndless = FALSE
    /\ wHops = 0

\* a call of findModelAddress on a device that never presents the end marker
WalkInitEndless ==
    /\ wChain \in Chains
    /\ wFill \in Fills
    /\ wTarget \in Targets
    /\ wBaseArg \in BaseArgs
    /\ wPc = "base"
    /\ wAddr = 0
    /\ wResult = NullAddr
    /\ wEndless = TRUE
    /\ wHops = 0

\* base address: the argument, or the default after the marker read
\* (a failed marker read is swallowed)
ResolveBase(marker) ==
    /\ wPc = "base"
    /\ wAddr' = IF wBaseArg = NullAddr THEN BaseAfterMarker(marker) ELSE wBaseArg
    /\ wPc' = "walk"
    /\ UNCHANGED <<wChain, wFill, wTarget, wBaseArg, wResult, wEndless, wHops>>
    /\ UNCHANGED nonWalkVars

\* one iteration of the while loop whose header read succeeds
WalkStep ==
    /\ wPc = "walk"
    /\ wHops < MaxHops
    /\ ReadHeader(wAddr) # <<>>
    /\ wHops' = wHops + 1
    /\ LET id == ReadHeader(wAddr)[1]
           length == ReadHeader(wAddr)[2]
       IN IF id = MODEL_END_MARKER
          THEN /\ wPc' = "returned" /\ wResult' = NotFound /\ UNCHANGED wAddr
          ELSE IF id = wTarget
          THEN /\ wPc' = "returned" /\ wResult' = wAddr /\ UNCHANGED wAddr
          ELSE /\ wAddr' = Advance(wAddr, length) /\ UNCHANGED <<wPc, wResult>>
    /\ UNCHANGED <<wChain, wFill, wTarget, wBaseArg, wEndless>>
    /\ UNCHANGED nonWalkVars

\* the header read rejects (transport fault or exception): the call throws
WalkReadFail ==
    /\ wPc = "walk"
    /\ wPc' = "threw"
    /\ UNCHANGED <<wChain, wFill, wTarget, wBaseArg, wAddr, wResult, wEndless, wHops>>
    /\ UNCHANGED nonWalkVars

WalkNext ==
    \/ \E marker \in {<<SUNSPEC_ID_HIGH, SUNSPEC_ID_LOW>>, <<0, 0>>, <<>>} : ResolveBase(marker)
    \/ WalkStep
    \/ WalkReadFail

\* ------------------------------------------------------------------------
\* readSinglePoint: address cache, chain walk, field read
\* ------------------------------------------------------------------------
\* the cacheKey `${ip}:${unitId}` of the devices read
DevKeys == {"10.0.0.5:1", "10.0.0.5:2"}
\* the modelId arguments of the calls
ReadModels == {1, 103, 999}
\* the header chain each explored device presents at BASE_ADDR_40002
DevChain(dev) ==
    IF dev = "10.0.0.5:1" THEN <<(<<103, 50>>), (<<1, 66>>)>>
    ELSE <<(<<1, 66>>), (<<103, 50>>)>>

\* names of the points of the schema of every model read
SchemaPoints == {"W", "A"}
\* the pointName arguments of the calls
PointNames == SchemaPoints \cup {"Bogus"}

\* what fetchPointValue returns to readSinglePoint: null when the schema has no
\* such point or the register holds the not-implemented sentinel
FieldResult(point, implemented) ==
    IF point \notin SchemaPoints THEN "null"
    ELSE IF ~implemented THEN "null"
    ELSE "value"

\* modelId.toString()
ModelStr(m) == CASE m = 1 -> "1" [] m = 103 -> "103" [] m = 999 -> "999"

ModelStrs == {ModelStr(m) : m \in ReadModels}

\* the while loop of findModelAddress on a chain laid out from addr:
\* <<returned address, header reads issued>>
RECURSIVE WalkChain(_, _, _, _)
WalkChain(chain, addr, target, reads) ==
    IF chain = <<>> THEN <<NotFound, reads + 1>>
    ELSE IF chain[1][1] = target THEN <<addr, reads + 1>>
    ELSE WalkChain(Tail(chain), Advance(addr, chain[1][2]), target, reads + 1)

CacheHitNested(dev, m) == dev \in cacheTop /\ cacheAddr[dev][ModelStr(m)] # 0

\* node.modelAddressCache[cacheKey] && node.modelAddressCache[modelId.toString()]
CacheHit(dev, m) == dev \in cacheTop /\ ModelStr(m) \in cacheTop

StoreAlways(hit, modelAddr) == ~hit

\* the cache is written after a walk that returned an address
StoreWalk(hit, modelAddr) == ~hit /\ modelAddr # NotFound

ReadInit ==
    /\ cacheTop = {}
    /\ cacheAddr = [d \in DevKeys |-> [ms \in ModelStrs |-> 0]]
    /\ rdCalls = 0
    /\ rdDev = NoKey
    /\ rdModel = 0
    /\ rdHeaderReads = 0
    /\ rdResolved = {}
    /\ rdOutcome = "none"
    /\ rdPoint = "none"

\* readSinglePoint(node, models, ip, port, unitId, modelId, pointName, timeout)
\* whose transport reads all succeed; implemented: the point's register does
\* not hold the sentinel
ReadSinglePoint(dev, m, point, implemented) ==
    /\ rdCalls < MaxReads
    /\ LET hit == CacheHit(dev, m)
           walk == WalkChain(DevChain(dev), BASE_ADDR_40002, m, 0)
           modelAddr == IF hit THEN cacheAddr[dev][ModelStr(m)] ELSE walk[1]
           store == StoreWalk(hit, modelAddr)
       IN /\ rdHeaderReads' = IF hit THEN 0 ELSE walk[2]
          /\ cacheTop' = IF store THEN cacheTop \cup {dev} ELSE cacheTop
          /\ cacheAddr' = IF store
                          THEN [cacheAddr EXCEPT ![dev][ModelStr(m)] = modelAddr]
                          ELSE cacheAddr
          /\ rdResolved' = IF modelAddr # NotFound
                           THEN rdResolved \cup {<<dev, m>>}
                           ELSE rdResolved
          /\ rdOutcome' = IF modelAddr = NotFound
                          THEN "SunSpecModelNotFoundError"
                          ELSE FieldResult(point, implemented)
    /\ rdCalls' = rdCalls + 1
    /\ rdDev' = dev
    /\ rdModel' = m
    /\ rdPoint' = point
    /\ UNCHANGED nonReadVars

\* readSinglePoint on a cache miss whose walk is cut short by a rejected header
\* read after `reads` headers: findModelAddress throws, nothing is stored
ReadWalkFail(dev, m, reads) ==
    /\ rdCalls < MaxReads
    /\ ~CacheHit(dev, m)
    /\ reads <= WalkChain(DevChain(dev), BASE_ADDR_40002, m, 0)[2]
    /\ rdHeaderReads' = reads
    /\ rdOutcome' = "Read failed"
    /\ rdCalls' = rdCalls + 1
    /\ rdDev' = dev
    /\ rdModel' = m
    /\ rdPoint' = "none"
    /\ UNCHANGED <<cacheTop, cacheAddr, rdResolved>>
    /\ UNCHANGED nonReadVars

\* the address resolution of writeSinglePoint: the nested cache entry, or a
\* walk whose result is stored unless it is -1; failed: a header read of the
\* walk is rejected
WriteResolve(dev, m, failed) ==
    /\ rdCalls < MaxReads
    /\ LET hit == CacheHitNested(dev, m)
           walk == WalkChain(DevChain(dev), BASE_ADDR_40002, m, 0)
           modelAddr == IF hit THEN cacheAddr[dev][ModelStr(m)] ELSE walk[1]
           store == ~failed /\ StoreWalk(hit, modelAddr)
       IN /\ failed => ~hit
          /\ rdHeaderReads' = IF hit THEN 0 ELSE walk[2]
          /\ cacheTop' = IF store THEN cacheTop \cup {dev} ELSE cacheTop
          /\ cacheAddr' = IF store
                          THEN [cacheAddr EXCEPT ![dev][ModelStr(m)] = modelAddr]
                          ELSE cacheAddr
          /\ rdResolved' = IF ~failed /\ modelAddr # NotFound
                           THEN rdResolved \cup {<<dev, m>>}
                           ELSE rdResolved
          /\ rdOutcome' = IF failed THEN "Write failed"
                          ELSE IF modelAddr = NotFound THEN "Model not found on device"
                          ELSE "resolved"
    /\ rdCalls' = rdCalls + 1
    /\ rdDev' = dev
    /\ rdModel' = m
    /\ rdPoint' = "none"
    /\ UNCHANGED nonReadVars

ReadNext ==
    \/ \E dev \in DevKeys, m \in ReadModels, point \in PointNames, implemented \in BOOLEAN :
          ReadSinglePoint(dev, m, point, implemented)
    \/ \E dev \in DevKeys, m \in ReadModels, reads \in 1..MaxChain :
          ReadWalkFail(dev, m, reads)
    \/ \E dev \in DevKeys, m \in ReadModels, failed \in BOOLEAN :
          WriteResolve(dev, m, failed)

\* ------------------------------------------------------------------------
\* readSinglePoint / writeSinglePoint as the action of a pool request:
\* what their catch block throws to the pool
\* ------------------------------------------------------------------------
\* the faults a register read or write is rejected with by the transport
TransportFaults == {{"ECONNRESET"}, {"ETIMEDOUT"}, {"Transaction timed out"},
                    {"Illegal data address"}}

\* text.toLowerCase().includes('time') for the message fragments in use
LowerIncludesTime(text) ==
    text \in {"ETIMEDOUT", "Transaction timed out",
              "Timeout: Device did not respond to read request.",
              "Timeout: Device did not respond to write request."}

\* e.code of the system errors
ErrCode(e) == IF "ETIMEDOUT" \in e THEN "ETIMEDOUT" ELSE "<none>"

\* isTimeout of the catch blocks
IsTimeout(e) == (\E text \in e : LowerIncludesTime(text)) \/ ErrCode(e) = "ETIMEDOUT"

\* the error the catch block of readSinglePoint throws for a transport fault
ReadPointError(e) ==
    IF IsTimeout(e)
    THEN {"Timeout: Device did not respond to read request."}
    ELSE {"Read failed: "} \cup e

\* the error the catch block of writeSinglePoint throws
WritePointError(e) ==
    IF IsTimeout(e)
    THEN {"Timeout: Device did not respond to write request."}
    ELSE {"Write failed: "} \cup e

\* a register read inside readSinglePoint is rejected with fault e
ReadPointFail(r, e) == ActionFail(r, ReadPointError(e))

\* the register write (or a read) inside writeSinglePoint is rejected with fault e
WritePointFail(r, e) == ActionFail(r, WritePointError(e))

PooledOpsNext ==
    \/ \E r \in ReqIds, e \in TransportFaults : ReadPointFail(r, e)
    \/ \E r \in ReqIds, e \in TransportFaults : WritePointFail(r, e)

\* ------------------------------------------------------------------------
\* fetchPointValue: decoding one point of a model block
\* ------------------------------------------------------------------------
\* A number n is kept as <<q, r>> with n = q * 65536 + r and 0 <= r < 65536, so
\* that 32-bit values keep their width.  A decoded value is m * 10^e, or null.
Big(n) == <<n \div 65536, n % 65536>>

Null == [null |-> TRUE, m |-> <<0, 0>>, e |-> 0]

Num(m, e) == [null |-> FALSE, m |-> m, e |-> e]

INT16_NOT_IMPL == -32768
UINT16_NOT_IMPL == 65535
\* -2147483648
INT32_NOT_IMPL == <<-32768, 0>>
\* 4294967295
UINT32_NOT_IMPL == <<65535, 65535>>

\* Buffer reads of the register words w
ReadUInt16BE(w) == w[1]

ReadInt16BE(w) == IF w[1] >= 32768 THEN w[1] - 65536 ELSE w[1]

ReadInt32BE(w) == <<ReadInt16BE(w), w[2]>>

ReadUInt32BE(w) == <<w[1], w[2]>>

\* type.includes('32') and type.includes('64') on the types of the schema
Includes32(type) == type \in {"int32", "uint32", "acc32"}

Includes64(type) == type \in {"int64", "uint64", "acc64"}

\* the size fetchPointValue gives a point whose definition has no size
\* p.size, 0 when the schema declares none; p.offset, -1 for undefined
DeclaredSize(p) == IF "size" \in DOMAIN p THEN p.size ELSE 0
NoOffset == -1
DeclaredOffset(p) == IF "offset" \in DOMAIN p THEN p.offset ELSE NoOffset

PointSize(p) ==
    IF DeclaredSize(p) # 0 THEN DeclaredSize(p)
    ELSE IF Includes64(p.type) THEN 4 ELSE IF Includes32(p.type) THEN 2 ELSE 1

\* value of staticScale and sf of a point definition that has none
NoScale == <<>>
NoSf == ""

\* mDef.group.points of the model read: the header fields, one point of every
\* type with a sentinel, and the scale factors
ModelPoints ==
    << [name |-> "ID",    type |-> "uint16",     sf |-> NoSf,    staticScale |-> NoScale],
       [name |-> "L",     type |-> "uint16",     sf |-> NoSf,    staticScale |-> NoScale],
       [name |-> "A",     type |-> "uint16",     sf |-> "A_SF",  staticScale |-> NoScale],
       [name |-> "W",     type |-> "int16",      sf |-> "W_SF",  staticScale |-> NoScale],
       [name |-> "Tmp",   type |-> "int16",      sf |-> "A_SF",  staticScale |-> NoScale],
       [name |-> "WH",    type |-> "acc32",      sf |-> "A_SF",  staticScale |-> NoScale],
       [name |-> "VArh",  type |-> "int32",      sf |-> "A_SF",  staticScale |-> NoScale],
       [name |-> "Cnt",   type |-> "uint32",     sf |-> NoSf,    staticScale |-> NoScale],
       [name |-> "St",    type |-> "enum16",     sf |-> NoSf,    staticScale |-> NoScale],
       [name |-> "Evt",   type |-> "bitfield16", sf |-> NoSf,    staticScale |-> NoScale],
       [name |-> "Hz",    type |-> "uint16",     sf |-> "A_SF",  staticScale |-> <<-1>>],
       [name |-> "PF",    type |-> "int16",      sf |-> "PF_SF", staticScale |-> NoScale],
       [name |-> "A_SF",  type |-> "sunssf",     sf |-> NoSf,    staticScale |-> NoScale],
       [name |-> "W_SF",  type |-> "sunssf",     sf |-> NoSf,    staticScale |-> NoScale] >>

\* points.find(p => p.name === name): index of the point, 0 when there is none
FindPoint(points, name) ==
    IF \E i \in 1..Len(points) : points[i].name = name
    THEN CHOOSE i \in 1..Len(points) :
            /\ points[i].name = name
            /\ \A j \in 1..(i - 1) : points[j].name # name
    ELSE 0

\* the sizes of the points before index i, summed
RECURSIVE SizeBefore(_, _)
SizeBefore(points, i) ==
    IF i <= 1 THEN 0 ELSE SizeBefore(points, i - 1) + PointSize(points[i - 1])

BlockLen == SizeBefore(ModelPoints, Len(ModelPoints) + 1)

\* offset of the point read or written: pointDef.offset when it is defined,
\* else the sizes of the points before it
PointOffset(points, i) ==
    IF DeclaredOffset(points[i]) # NoOffset THEN DeclaredOffset(points[i])
    ELSE SizeBefore(points, i)

\* sfOffset: the sizes of the points before the scale-factor point
SfOffset(points, j) == SizeBefore(points, j)

\* readHoldingRegisters(modelAddr + offset, size)
ReadRegs(regs, offset, size) == [i \in 1..size |-> regs[offset + i]]

\* the typed read of the point's words: the raw number, or null at the sentinel
DecodeRaw(type, w) ==
    IF type = "int16" THEN
        IF ReadInt16BE(w) = -32768 THEN Null ELSE Num(Big(ReadInt16BE(w)), 0)
    ELSE IF type \in {"uint16", "enum16"} THEN
        IF ReadUInt16BE(w) = 65535 THEN Null ELSE Num(Big(ReadUInt16BE(w)), 0)
    ELSE IF type = "int32" THEN
        IF ReadInt32BE(w) = <<-32768, 0>> THEN Null ELSE Num(ReadInt32BE(w), 0)
    ELSE IF type = "uint32" THEN
        IF ReadUInt32BE(w) = <<65535, 65535>> THEN Null ELSE Num(ReadUInt32BE(w), 0)
    ELSE IF type = "sunssf" THEN
        IF ReadInt16BE(w) = -32768 THEN Null ELSE Num(Big(ReadInt16BE(w)), 0)
    ELSE Num(Big(ReadUInt16BE(w)), 0)

\* val * Math.pow(10, sf), skipped when the scale factor is not implemented
ScaleInverse(val, sf) == IF sf # -32768 THEN Num(val.m, val.e - sf) ELSE val
ScaleBy(val, sf) == IF sf # -32768 THEN Num(val.m, val.e + sf) ELSE val

RECURSIVE Pow10(_)
Pow10(k) == IF k <= 0 THEN 1 ELSE 10 * Pow10(k - 1)

\* floor and remainder of the division of a kept number by a small d
BigDiv(n, d) == <<n[1] \div d, ((n[1] % d) * 65536 + n[2]) \div d>>

BigMod(n, d) == ((n[1] % d) * 65536 + n[2]) % d

BigInc(n) == IF n[2] = 65535 THEN <<n[1] + 1, 0>> ELSE <<n[1], n[2] + 1>>

\* Number(val.toFixed(2)): the nearest number with two decimals, a tie going
\* away from zero
Round2(val) ==
    IF val.e >= -2 THEN val
    ELSE LET d == Pow10(-2 - val.e)
             f == BigDiv(val.m, d)
             rem == BigMod(val.m, d)
         IN IF 2 * rem > d \/ (2 * rem = d /\ val.m[1] >= 0)
            THEN Num(BigInc(f), -2)
            ELSE Num(f, -2)

\* fetchPointValue(client, models, modelId, modelAddr, pointName, node)
FetchPointValue(points, regs, pointName, round, sfFails) ==
    LET i == FindPoint(points, pointName)
    IN IF i = 0 THEN Null
       ELSE
        LET pointDef == points[i]
            offset == PointOffset(points, i)
            raw == DecodeRaw(pointDef.type, ReadRegs(regs, offset, PointSize(pointDef)))
            j == FindPoint(points, pointDef.sf)
            sf == ReadInt16BE(ReadRegs(regs, SfOffset(points, j), 1))
            val == IF pointDef.staticScale # NoScale
                   THEN Num(raw.m, raw.e + pointDef.staticScale[1])
                   ELSE IF pointDef.sf # NoSf
                        THEN IF pointDef.name \in {"W", "VA"} THEN raw
                             ELSE IF j # 0 /\ ~sfFails THEN ScaleBy(raw, sf)
                             ELSE raw
                        ELSE raw
        IN IF raw.null THEN Null
           ELSE IF round THEN Round2(val) ELSE val

\* register words the device may hold for the point, and for a scale factor
Words == {0, 1234, 1890, 32768, 65535}
SfWords == {0, 1, 65533, 65534, 32768}

PointArgs == {ModelPoints[i].name : i \in 3..Len(ModelPoints)} \cup {"Bogus"}

\* the block of a device whose point pointName holds <<w1, w2>> and whose scale
\* factors all hold sfw
BlockRegs(pointName, w1, w2, sfw) ==
    LET i == FindPoint(ModelPoints, pointName)
        off == IF i = 0 THEN -2 ELSE SizeBefore(ModelPoints, i)
        size == IF i = 0 THEN 0 ELSE PointSize(ModelPoints[i])
        isSf(k) == \E n \in 1..Len(ModelPoints) :
                      /\ ModelPoints[n].type = "sunssf"
                      /\ SizeBefore(ModelPoints, n) + 1 = k
    IN [k \in 1..BlockLen |->
          IF k = off + 1 THEN w1
          ELSE IF k = off + 2 /\ size = 2 THEN w2
          ELSE IF isSf(k) THEN sfw
          ELSE 0]

DecodeIdle ==
    /\ fpPoint = "none"
    /\ fpRegs = <<>>
    /\ fpRound = FALSE
    /\ fpSfFails = FALSE
    /\ fpPc = "idle"
    /\ fpResult = Null

DecodeInit ==
    /\ fpPoint \in PointArgs
    /\ \E w1 \in Words, w2 \in Words, sfw \in SfWords :
          fpRegs = BlockRegs(fpPoint, w1, w2, sfw)
    /\ fpRound \in BOOLEAN
    /\ fpSfFails \in BOOLEAN
    /\ fpPc = "ready"
    /\ fpResult = Null

\* the call returns
FetchPoint ==
    /\ fpPc = "ready"
    /\ fpResult' = FetchPointValue(ModelPoints, fpRegs, fpPoint, fpRound, fpSfFails)
    /\ fpPc' = "done"
    /\ UNCHANGED <<fpPoint, fpRegs, fpRound, fpSfFails>>
    /\ UNCHANGED nonDecodeVars

DecodeNext == FetchPoint

\* ------------------------------------------------------------------------
\* parseUnitIds
\* ------------------------------------------------------------------------
\* longest unit ID string explored
MaxStrLen == 4

\* the characters of the explored strings
Digits == {"0", "1", "2", "3", "4", "5", "6", "7", "8", "9"}
Chars == {"1", "2", "3", "-", ",", " ", "x"}

DigitChars == <<"0", "1", "2", "3", "4", "5", "6", "7", "8", "9">>

DigitVal(c) == (CHOOSE i \in 1..10 : DigitChars[i] = c) - 1

\* the value of parseInt on a string without a leading integer
NaN == -1

\* the null returned for "scan all", and a returned array
ScanAll == [null |-> TRUE, ids |-> <<>>]

IdList(ids) == [null |-> FALSE, ids |-> ids]

RECURSIVE TrimLeft(_)
TrimLeft(str) == IF str # <<>> /\ Head(str) = " " THEN TrimLeft(Tail(str)) ELSE str

RECURSIVE TrimRight(_)
TrimRight(str) ==
    IF str # <<>> /\ str[Len(str)] = " " THEN TrimRight(SubSeq(str, 1, Len(str) - 1)) ELSE str

\* String.prototype.trim
Trim(str) == TrimRight(TrimLeft(str))

\* String.prototype.split
RECURSIVE Split(_, _)
Split(str, sep) ==
    IF \E i \in 1..Len(str) : str[i] = sep
    THEN LET i == CHOOSE k \in 1..Len(str) : str[k] = sep /\ \A j \in 1..(k - 1) : str[j] # sep
         IN <<SubSeq(str, 1, i - 1)>> \o Split(SubSeq(str, i + 1, Len(str)), sep)
    ELSE <<str>>

\* String.prototype.includes, for one character
IncludesChar(str, c) == \E i \in 1..Len(str) : str[i] = c

RECURSIVE DigitsVal(_)
DigitsVal(d) ==
    IF d = <<>> THEN 0
    ELSE DigitsVal(SubSeq(d, 1, Len(d) - 1)) * 10 + DigitVal(d[Len(d)])

\* parseInt: leading whitespace is skipped and the longest run of digits read
ParseInt(str) ==
    LET t == TrimLeft(str)
        n == CHOOSE k \in 0..Len(t) :
                /\ \A i \in 1..k : t[i] \in Digits
                /\ k < Len(t) => t[k + 1] \notin Digits
    IN IF n = 0 THEN NaN ELSE DigitsVal(SubSeq(t, 1, n))

\* the ids one part pushes
PartIds(part) ==
    IF IncludesChar(part, "-")
    THEN LET bounds == Split(part, "-")
             start == ParseInt(bounds[1])
             end == ParseInt(bounds[2])
         IN IF start # NaN /\ end # NaN /\ start <= end
            THEN [i \in 1..(end - start + 1) |-> start + i - 1]
            ELSE <<>>
    ELSE IF ParseInt(part) # NaN THEN <<ParseInt(part)>> ELSE <<>>

RECURSIVE AllIds(_)
AllIds(parts) == IF parts = <<>> THEN <<>> ELSE PartIds(Head(parts)) \o AllIds(Tail(parts))

RECURSIVE Ascending(_)
Ascending(S) ==
    IF S = {} THEN <<>>
    ELSE LET lo == CHOOSE x \in S : \A y \in S : x <= y
         IN <<lo>> \o Ascending(S \ {lo})

\* [...new Set(ids)].sort((a, b) => a - b)
KeepOrder(ids) == ids
DedupSort(ids) == Ascending({ids[i] : i \in 1..Len(ids)})

\* unitIdStr.split(',').map(s => s.trim())
TrimAll(parts) == [i \in 1..Len(parts) |-> Trim(parts[i])]

\* parseUnitIds(unitIdStr)
ParseUnitIds(str) ==
    IF str = <<>> \/ Trim(str) = <<>> THEN ScanAll
    ELSE IdList(DedupSort(AllIds(TrimAll(Split(str, ",")))))

ParseIdle ==
    /\ puStr = <<>>
    /\ puPc = "idle"
    /\ puResult = ScanAll

ParseInit ==
    /\ puStr \in UNION {[1..n -> Chars] : n \in 0..MaxStrLen}
    /\ puPc = "ready"
    /\ puResult = ScanAll

\* the call returns
ParseCall ==
    /\ puPc = "ready"
    /\ puResult' = ParseUnitIds(puStr)
    /\ puPc' = "done"
    /\ UNCHANGED puStr
    /\ UNCHANGED nonParseVars

ParseNext == ParseCall

\* ------------------------------------------------------------------------
\* parseIpRange and getSubnetRange
\* ------------------------------------------------------------------------
\* 32-bit values are kept as <<q, r>> = q * 65536 + r; q is in 0..65535 for an
\* unsigned value and in -32768..32767 for the signed result of & | ~ <<
ToUint32(x) == <<x[1] % 65536, x[2]>>

ToInt32(x) == <<IF (x[1] % 65536) >= 32768 THEN (x[1] % 65536) - 65536 ELSE x[1] % 65536, x[2]>>

RECURSIVE Pow2(_)
Pow2(k) == IF k <= 0 THEN 1 ELSE 2 * Pow2(k - 1)

RECURSIVE BitAnd(_, _, _)
BitAnd(a, b, n) ==
    IF n = 0 THEN 0 ELSE (a % 2) * (b % 2) + 2 * BitAnd(a \div 2, b \div 2, n - 1)

\* x & y
And32(x, y) ==
    ToInt32(<<BitAnd(ToUint32(x)[1], ToUint32(y)[1], 16), BitAnd(x[2], y[2], 16)>>)

\* ~x
Not32(x) == ToInt32(<<65535 - ToUint32(x)[1], 65535 - x[2]>>)

\* x | y
Or32(x, y) == Not32(And32(Not32(x), Not32(y)))

\* x << n: the shift count is taken modulo 32
Shl32(x, n) ==
    LET k == n % 32
        u == ToUint32(x)
    IN IF k >= 16
       THEN ToInt32(<<(u[2] * Pow2(k - 16)) % 65536, 0>>)
       ELSE ToInt32(<<((u[1] * Pow2(k)) % 65536) + ((u[2] * Pow2(k)) \div 65536),
                      (u[2] * Pow2(k)) % 65536>>)

\* x + n for a small n
AddSmall(x, n) == <<x[1] + ((x[2] + n) \div 65536), (x[2] + n) % 65536>>

Less(x, y) == x[1] < y[1] \/ (x[1] = y[1] /\ x[2] < y[2])

\* y - x, for values that are close
Diff(y, x) == (y[1] - x[1]) * 65536 + (y[2] - x[2])

\* the decimal text of a number
RECURSIVE ToDigits(_)
ToDigits(n) ==
    IF n < 10 THEN <<DigitChars[n + 1]>> ELSE ToDigits(n \div 10) \o <<DigitChars[(n % 10) + 1]>>

\* `${p1}.${p2}.${p3}.${p4}` of the 32-bit value i
FormatIp(i) ==
    LET u == ToUint32(i)
    IN ToDigits(u[1] \div 256) \o <<".">> \o ToDigits(u[1] % 256) \o <<".">>
          \o ToDigits(u[2] \div 256) \o <<".">> \o ToDigits(u[2] % 256)

\* split('.').reduce((acc, octet) => (acc << 8) + parseInt(octet), 0) >>> 0
RECURSIVE ReduceOctets(_, _)
ReduceOctets(acc, octets) ==
    IF octets = <<>> THEN acc
    ELSE ReduceOctets(AddSmall(Shl32(acc, 8), ParseInt(Head(octets))), Tail(octets))

IpToLong(str) == ToUint32(ReduceOctets(<<0, 0>>, Split(str, ".")))

\* the addresses i with first < i < last, in the order of the for loop
HostsBetween(first, last) ==
    LET n == IF Less(AddSmall(first, 1), last) THEN Diff(last, first) - 1 ELSE 0
    IN [k \in 1..n |-> FormatIp(AddSmall(first, k))]

\* getSubnetRange(ip, netmask)
GetSubnetRange(ip, netmask) ==
    LET ipInt == IpToLong(ip)
        maskInt == IpToLong(netmask)
        base == And32(ipInt, maskInt)
        broadcast == Or32(base, ToUint32(Not32(maskInt)))
    IN HostsBetween(base, broadcast)

\* the addresses of a CIDR part
CidrPart(part) ==
    LET pieces == Split(part, "/")
        p == ParseInt(pieces[2])
        ipLong == IpToLong(pieces[1])
        maskLong == ToUint32(Shl32(<<65535, 65535>>, 32 - p))
        start == ToUint32(And32(ipLong, maskLong))
        end == ToUint32(Or32(start, ToUint32(Not32(maskLong))))
    IN HostsBetween(start, end)

\* part.lastIndexOf('.')
LastIndexOf(str, c) ==
    IF \E i \in 1..Len(str) : str[i] = c
    THEN CHOOSE i \in 1..Len(str) : str[i] = c /\ \A j \in (i + 1)..Len(str) : str[j] # c
    ELSE 0

\* the addresses of a range part a.b.c.x-y
RangePart(part) ==
    LET lastDot == LastIndexOf(part, ".")
        subnet == SubSeq(part, 1, lastDot)
        range == Split(SubSeq(part, lastDot + 1, Len(part)), "-")
        start == ParseInt(range[1])
        end == ParseInt(range[2])
    IN IF start # NaN /\ end # NaN /\ start <= end
       THEN [k \in 1..(end - start + 1) |-> subnet \o ToDigits(start + k - 1)]
       ELSE <<>>

IpPart(part) ==
    IF IncludesChar(part, "/") THEN CidrPart(part)
    ELSE IF IncludesChar(part, "-") THEN RangePart(part)
    ELSE <<part>>

RECURSIVE AllIps(_)
AllIps(parts) == IF parts = <<>> THEN <<>> ELSE IpPart(Head(parts)) \o AllIps(Tail(parts))

RECURSIVE LocalIps(_)
LocalIps(ifaces) ==
    IF ifaces = <<>> THEN <<>>
    ELSE GetSubnetRange(Head(ifaces).ip, Head(ifaces).netmask) \o LocalIps(Tail(ifaces))

\* [...new Set(allIps)]: every address once, in the order of its first occurrence
RECURSIVE Unique(_)
Unique(ips) ==
    IF ips = <<>> THEN <<>>
    ELSE LET front == Unique(SubSeq(ips, 1, Len(ips) - 1))
             last == ips[Len(ips)]
         IN IF \E i \in 1..Len(front) : front[i] = last THEN front ELSE Append(front, last)

MagicAll == <<"0", ".", "0", ".", "0", ".", "0", "/", "0">>
MagicAny == <<"0", ".", "0", ".", "0", ".", "0">>

\* parseIpRange(ipStr)
ParseIpRange(str, ifaces) ==
    IF str = <<>> \/ Trim(str) = <<>> THEN <<>>
    ELSE IF Trim(str) = MagicAll \/ Trim(str) = MagicAny THEN Unique(LocalIps(ifaces))
    ELSE AllIps(TrimAll(Split(str, ",")))

\* the text a.b.c.d of four octets, and a.b.c.d/p
DottedQuad(o) ==
    ToDigits(o[1]) \o <<".">> \o ToDigits(o[2]) \o <<".">> \o ToDigits(o[3]) \o <<".">> \o ToDigits(o[4])

CidrStr(o, p) == DottedQuad(o) \o <<"/">> \o ToDigits(p)

\* the addresses and prefix lengths of the explored CIDR strings
IpBases ==
    { <<0, 0, 0, 0>>, <<10, 0, 0, 5>>, <<10, 0, 0, 255>>, <<127, 255, 255, 254>>,
      <<128, 0, 0, 1>>, <<172, 16, 255, 250>>, <<192, 168, 1, 0>>, <<255, 255, 255, 255>> }

Prefixes == {0, 24, 29, 30, 31, 32}


\* other explored strings: a single address, a range, a list, the bare magic
OtherInputs ==
    { DottedQuad(<<10, 0, 0, 5>>),
      DottedQuad(<<10, 0, 0, 5>>) \o <<"-", "7">>,
      DottedQuad(<<10, 0, 0, 5>>) \o <<",", " ">> \o CidrStr(<<10, 0, 0, 9>>, 30),
      MagicAny, <<>>, <<" ">> }

\* the octets of the netmask with p leading ones, p >= 24
MaskOctets(p) == <<255, 255, 255, 256 - Pow2(32 - p)>>

\* an entry of getLocalInterfaces: address o in a subnet of prefix length p
Iface(net) == [ip |-> DottedQuad(net[1]), netmask |-> DottedQuad(MaskOctets(net[2]))]

\* the local networks of the explored hosts, as <<address, prefix length>>
LocalNets ==
    { <<>>,
      << <<(<<192, 168, 1, 10>>), 29>> >>,
      << <<(<<10, 0, 0, 5>>), 30>>, <<(<<10, 0, 0, 6>>), 30>>, <<(<<100, 64, 0, 1>>), 32>> >> }

IfacesOf(nets) == [i \in 1..Len(nets) |-> Iface(nets[i])]

\* explored results of getLocalInterfaces
IfaceLists == {IfacesOf(nets) : nets \in LocalNets}

IpIdle ==
    /\ ipStr = <<>>
    /\ ipIfaces = <<>>
    /\ ipPc = "idle"
    /\ ipResult = <<>>

IpInit ==
    /\ ipStr \in {CidrStr(o, p) : o \in IpBases, p \in Prefixes} \cup OtherInputs
    /\ ipIfaces \in IfaceLists
    /\ ipPc = "ready"
    /\ ipResult = <<>>

\* the call returns
ParseIpRangeCall ==
    /\ ipPc = "ready"
    /\ ipResult' = ParseIpRange(ipStr, ipIfaces)
    /\ ipPc' = "done"
    /\ UNCHANGED <<ipStr, ipIfaces>>
    /\ UNCHANGED nonIpVars

IpNext == ParseIpRangeCall

\* ------------------------------------------------------------------------
\* scanUnitIds
\* ------------------------------------------------------------------------
MAX_UNIT_ID == 247

\* the IDs tried first on a port other than 503
PriorityIds == <<1, 126, 2, 3, 4, 100, 200>>

\* !idsToCheck.includes(i) on the priority list
NotPriority(i) == \A k \in 1..Len(PriorityIds) : PriorityIds[k] # i

\* idsToCheck when no list is given
DefaultIds(port) ==
    IF port = 503
    THEN [i \in 1..26 |-> 9 + i] \o <<1, 2, 201>>
    ELSE PriorityIds \o SelectSeq([i \in 1..MAX_UNIT_ID |-> i], NotPriority)

IdsToCheck(port, override) == IF Len(override) > 0 THEN override ELSE DefaultIds(port)

\* the dialect found for unit ID id, "none" when no marker read matches
ClassifyConextFirst(port, device, id) ==
    IF port = 503 /\ id \notin device.dead /\ id \in device.reg0 THEN "conext_xw_503"
    ELSE IF id \notin device.dead /\ id \in device.sunspec THEN "sunspec"
    ELSE IF port # 503 /\ id \notin device.dead /\ id \in device.sma THEN "sma_edmm"
    ELSE "none"
Classify(port, device, id) ==
    IF id \notin device.dead /\ id \in device.sunspec THEN "sunspec"
    ELSE IF port # 503 /\ id \notin device.dead /\ id \in device.sma THEN "sma_edmm"
    ELSE IF port = 503 /\ id \notin device.dead /\ id \in device.reg0 THEN "conext_xw_503"
    ELSE "none"

FoundResetOnMiss(found, id, type) ==
    IF type = "none" THEN <<>> ELSE Append(found, <<id, type>>)

\* foundIds after the reads of unit ID id: a read that is rejected is caught
\* and counts as no match
FoundAfterReads(found, id, type) ==
    IF type = "none" THEN found ELSE Append(found, <<id, type>>)

\* explored ports, ID lists and hosts
ScanPorts == {502, 503, 1502}

Overrides == {<<>>, <<5>>, <<1, 2, 3>>}

\* the unit IDs of a host that answer each marker read, and those (dead) on
\* which every read is rejected
Devices ==
    { [sunspec |-> {}, sma |-> {}, reg0 |-> {}, dead |-> {}],
      [sunspec |-> {1, 126}, sma |-> {3}, reg0 |-> {1, 3, 126}, dead |-> {}],
      [sunspec |-> {1, 126}, sma |-> {3}, reg0 |-> {1, 3, 126}, dead |-> {2, 4}],
      [sunspec |-> {}, sma |-> {}, reg0 |-> {10, 11, 201}, dead |-> {12}] }

ScanIdle ==
    /\ scPort = 0
    /\ scOverride = <<>>
    /\ scDevice = [sunspec |-> {}, sma |-> {}, reg0 |-> {}, dead |-> {}]
    /\ scStop = FALSE
    /\ scPc = "idle"
    /\ scIds = <<>>
    /\ scIdx = 0
    /\ scProbed = <<>>
    /\ scFound = <<>>
    /\ scBroke = FALSE
    /\ scClosed = FALSE

\* scanUnitIds is called for a host whose port check succeeded
ScanInit ==
    /\ scPort \in ScanPorts
    /\ scOverride \in Overrides
    /\ scDevice \in Devices
    /\ scStop = FALSE
    /\ scPc = "connecting"
    /\ scIds = IdsToCheck(scPort, scOverride)
    /\ scIdx = 0
    /\ scProbed = <<>>
    /\ scFound = <<>>
    /\ scBroke = FALSE
    /\ scClosed = FALSE

\* connectTCP resolves
ScanConnectOk ==
    /\ scPc = "connecting"
    /\ scPc' = "loop"
    /\ UNCHANGED <<scPort, scOverride, scDevice, scStop, scIds, scIdx, scProbed, scFound, scBroke, scClosed>>
    /\ UNCHANGED nonScanVars

\* connectTCP rejects: caught, the client is closed, nothing was probed
ScanConnectFail ==
    /\ scPc = "connecting"
    /\ scPc' = "failed"
    /\ UNCHANGED <<scPort, scOverride, scDevice, scStop, scIds, scIdx, scProbed, scFound, scBroke>>
    /\ scClosed' = TRUE
    /\ UNCHANGED nonScanVars

\* one pass of the for loop: the next ID is selected and its marker reads made
ScanProbe ==
    /\ scPc = "loop" /\ scIdx < Len(scIds) /\ ~scStop
    /\ LET id == scIds[scIdx + 1]
           type == Classify(scPort, scDevice, id)
       IN /\ scProbed' = Append(scProbed, id)
          /\ scFound' = FoundAfterReads(scFound, id, type)
    /\ scIdx' = scIdx + 1
    /\ UNCHANGED <<scPort, scOverride, scDevice, scStop, scPc, scIds, scBroke, scClosed>>
    /\ UNCHANGED nonScanVars

\* shouldStop() holds at the head of the loop
ScanBreak ==
    /\ scPc = "loop" /\ scIdx < Len(scIds) /\ scStop
    /\ scBroke' = TRUE
    /\ scPc' = "done"
    /\ UNCHANGED <<scPort, scOverride, scDevice, scStop, scIds, scIdx, scProbed, scFound>>
    /\ scClosed' = TRUE
    /\ UNCHANGED nonScanVars

\* the list is exhausted: the client is closed and foundIds returned
ScanFinish ==
    /\ scPc = "loop" /\ scIdx = Len(scIds)
    /\ scPc' = "done"
    /\ UNCHANGED <<scPort, scOverride, scDevice, scStop, scIds, scIdx, scProbed, scFound, scBroke>>
    /\ scClosed' = TRUE
    /\ UNCHANGED nonScanVars

\* POST /sunspec-scan/stop while the scan runs
StopScan ==
    /\ scPc \in {"connecting", "loop"} /\ ~scStop
    /\ scStop' = TRUE
    /\ UNCHANGED <<scPort, scOverride, scDevice, scPc, scIds, scIdx, scProbed, scFound, scBroke, scClosed>>
    /\ UNCHANGED nonScanVars

ScanNext ==
    \/ ScanConnectOk
    \/ ScanConnectFail
    \/ ScanProbe
    \/ ScanBreak
    \/ ScanFinish
    \/ StopScan

\* ------------------------------------------------------------------------
\* triggerScan in list mode, readMultiplePoints
\* ------------------------------------------------------------------------
\* longest output list explored
MaxItems == 3

ListDevices == {"10.0.0.5", "10.0.0.6"}
ListModels == {101, 103}
ListPoints == {"A", "Cnt"}

\* the blocks each explored device presents at BASE_ADDR_40002, in order
ListChain(d) == IF d = "10.0.0.5" THEN <<101, 103>> ELSE <<101>>

\* the registers of block b: its header, then every field holding a word of its
\* own and every scale factor -1
ListBlock(b) ==
    [k \in 1..BlockLen |->
        IF k = 1 THEN b
        ELSE IF k = 2 THEN BlockLen - 2
        ELSE IF ModelPoints[CHOOSE n \in 1..Len(ModelPoints) :
                               /\ SizeBefore(ModelPoints, n) < k
                               /\ k <= SizeBefore(ModelPoints, n + 1)].type = "sunssf"
             THEN 65535
        ELSE b + k]

RECURSIVE ListBlocks(_)
ListBlocks(chain) ==
    IF chain = <<>> THEN <<MODEL_END_MARKER, 0>>
    ELSE ListBlock(Head(chain)) \o ListBlocks(Tail(chain))

\* the holding registers of every device from BASE_ADDR_40002 on
ListMems == [d \in ListDevices |-> ListBlocks(ListChain(d))]

ListMem(d) == ListMems[d]

\* readHoldingRegisters(addr, ...) on device d: the registers from addr on
RegsFrom(d, addr) ==
    LET mem == ListMem(d)
        off == addr - BASE_ADDR_40002
    IN [i \in 1..(Len(mem) - off) |-> mem[off + i]]

\* the address readMultiplePoints records for a block whose header is at addr
BlockStart(addr) == addr + 2

\* the chain walk of readMultiplePoints: modelAddresses as a set of <<id, address>>
RECURSIVE ModelAddresses(_, _, _)
ModelAddresses(d, addr, found) ==
    LET h == RegsFrom(d, addr)
    IN IF h[1] = MODEL_END_MARKER THEN found
       ELSE ModelAddresses(d, addr + 2 + h[2],
                IF \E e \in found : e[1] = h[1] THEN found
                ELSE found \cup {<<h[1], BlockStart(addr)>>})

\* modelAddresses after the walk, on every device
WalkedAddresses == [d \in ListDevices |-> ModelAddresses(d, BASE_ADDR_40002, {})]

\* modelAddresses[mid], 0 for undefined
AddressOf(found, mid) ==
    IF \E e \in found : e[1] = mid THEN (CHOOSE e \in found : e[1] = mid)[2] ELSE 0

\* the devices of the output list in the order of their first item: the keys of
\* groups
RECURSIVE GroupKeys(_)
GroupKeys(items) ==
    IF items = <<>> THEN <<>>
    ELSE LET front == GroupKeys(SubSeq(items, 1, Len(items) - 1))
             d == items[Len(items)].device
         IN IF \E k \in 1..Len(front) : front[k] = d THEN front ELSE Append(front, d)

\* readMultiplePoints throws: the connection is refused, or a field read is
\* rejected
GroupThrows(items, d, dev) ==
    \/ dev[d] = "down"
    \/ /\ dev[d] = "fault"
       /\ \E i \in 1..Len(items) :
             /\ items[i].device = d
             /\ AddressOf(WalkedAddresses[d], items[i].model) # 0

\* the value readMultiplePoints returns for one item of device d
ItemValue(item, round) ==
    LET mAddr == AddressOf(WalkedAddresses[item.device], item.model)
    IN IF mAddr = 0 THEN Null
       ELSE FetchPointValue(ModelPoints, RegsFrom(item.device, mAddr), item.point, round, FALSE)

ListItem == [device : ListDevices, model : ListModels, point : ListPoints]

ListInputs == UNION {[1..n -> ListItem] : n \in 1..MaxItems}

ListIdle ==
    /\ lsItems = <<>>
    /\ lsDev = [d \in ListDevices |-> "ok"]
    /\ lsRound = FALSE
    /\ lsPc = "idle"
    /\ lsIdx = 0
    /\ lsFailed = {}
    /\ lsFinal = <<>>

\* the items are grouped and finalArray is filled with null
ListInit ==
    /\ lsItems \in ListInputs
    /\ lsDev \in [ListDevices -> {"ok", "down", "fault"}]
    /\ lsRound \in BOOLEAN
    /\ lsPc = "reading"
    /\ lsIdx = 0
    /\ lsFailed = {}
    /\ lsFinal = [i \in 1..Len(lsItems) |-> Null]

\* one turn of the loop over the groups: readMultiplePoints returns
ListGroupOk ==
    /\ lsPc = "reading"
    /\ lsIdx < Len(GroupKeys(lsItems))
    /\ LET d == GroupKeys(lsItems)[lsIdx + 1]
       IN /\ ~GroupThrows(lsItems, d, lsDev)
          /\ lsFinal' = [i \in 1..Len(lsItems) |->
                            IF lsItems[i].device = d THEN ItemValue(lsItems[i], lsRound)
                            ELSE lsFinal[i]]
    /\ lsIdx' = lsIdx + 1
    /\ UNCHANGED <<lsItems, lsDev, lsRound, lsPc, lsFailed>>
    /\ UNCHANGED nonListVars

\* one turn of the loop over the groups: readMultiplePoints throws
ListGroupFail ==
    /\ lsPc = "reading"
    /\ lsIdx < Len(GroupKeys(lsItems))
    /\ LET d == GroupKeys(lsItems)[lsIdx + 1]
       IN /\ GroupThrows(lsItems, d, lsDev)
          /\ lsFailed' = lsFailed \cup {d}
    /\ lsIdx' = lsIdx + 1
    /\ UNCHANGED <<lsItems, lsDev, lsRound, lsPc, lsFinal>>
    /\ UNCHANGED nonListVars

\* msg.payload = finalArray; node.send(msg)
ListSend ==
    /\ lsPc = "reading"
    /\ lsIdx = Len(GroupKeys(lsItems))
    /\ lsPc' = "sent"
    /\ UNCHANGED <<lsItems, lsDev, lsRound, lsIdx, lsFailed, lsFinal>>
    /\ UNCHANGED nonListVars

ListNext ==
    \/ ListGroupOk
    \/ ListGroupFail
    \/ ListSend

\* ------------------------------------------------------------------------
\* writeSinglePoint: the action run on the pooled client
\* ------------------------------------------------------------------------
\* explored model ids: one with a schema, one without, one fixed-address dialect
WriteModels == {"101", "160", "sma_edmm"}

\* models[mid] is defined
HasSchema(mid) == mid \in {"101", "sma_edmm"}

WriteValues == {0, 7, -3, 7000}

\* address of block 101 on the device, and the address a cache entry holds
WriteBlockAddr == BASE_ADDR_40002 + 66
WriteCachedAddr == BASE_ADDR_40002

\* the types writeSinglePoint encodes
SupportedWriteAny(type) == TRUE
SupportedWrite(type) ==
    type \in {"uint16", "enum16", "bitfield16", "int16", "sint16", "uint32", "int32", "sint32"}

\* Buffer.write...BE(val) accepts val
InRange(type, val) ==
    IF type \in {"int16", "sint16"} THEN val >= -32768 /\ val <= 32767
    ELSE IF type \in {"int32", "sint32"} THEN TRUE
    ELSE IF type = "uint32" THEN val >= 0
    ELSE val >= 0 /\ val <= 65535

\* the words of the buffer written
WriteBuffer(type, val) ==
    IF type \in {"uint32", "int32", "sint32"}
    THEN <<(val \div 65536) % 65536, val % 65536>>
    ELSE <<val % 65536>>

\* modelAddr after the cache test and the walk, -1 when the block is not found
WriteModelAddr(mid, cached, walk) ==
    IF mid = "sma_edmm" THEN 0
    ELSE IF cached THEN WriteCachedAddr
    ELSE IF walk = "found" THEN WriteBlockAddr
    ELSE -1

\* val after staticScale and Math.round
WriteVal(pointDef, value) ==
    IF pointDef.staticScale # NoScale /\ pointDef.staticScale[1] < 0
    THEN value * Pow10(-pointDef.staticScale[1])
    ELSE value

\* the error thrown before any register is written, "" when there is none
WriteThrows(mid, pointName, value, cached, walk) ==
    LET i == IF HasSchema(mid) THEN FindPoint(ModelPoints, pointName) ELSE 0
    IN IF mid # "sma_edmm" /\ ~cached /\ walk = "throws" THEN "Write failed: read rejected"
       ELSE IF WriteModelAddr(mid, cached, walk) = -1 THEN "Write failed: Model not found on device"
       ELSE IF ~HasSchema(mid) THEN "Write failed: Model definition missing"
       ELSE IF i = 0 THEN "Write failed: Point not found in model"
       ELSE IF ~SupportedWrite(ModelPoints[i].type)
            THEN "Write failed: Write not supported for type"
       ELSE IF ~InRange(ModelPoints[i].type, WriteVal(ModelPoints[i], value))
            THEN "Write failed: value out of range"
       ELSE ""

WriteIdle ==
    /\ wrModel = "101"
    /\ wrPoint = "none"
    /\ wrValue = 0
    /\ wrWalk = "found"
    /\ wrCached = FALSE
    /\ wrPc = "idle"
    /\ wrWrites = <<>>
    /\ wrResult = "none"
    /\ wrErr = ""

WriteInit ==
    /\ wrModel \in WriteModels
    /\ wrPoint \in PointArgs
    /\ wrValue \in WriteValues
    /\ wrWalk \in {"found", "absent", "throws"}
    /\ wrCached \in BOOLEAN
    /\ wrPc = "ready"
    /\ wrWrites = <<>>
    /\ wrResult = "none"
    /\ wrErr = ""

\* the action throws before it writes
WritePointThrow ==
    /\ wrPc = "ready"
    /\ WriteThrows(wrModel, wrPoint, wrValue, wrCached, wrWalk) # ""
    /\ wrPc' = "done"
    /\ wrResult' = "error"
    /\ wrErr' = WriteThrows(wrModel, wrPoint, wrValue, wrCached, wrWalk)
    /\ UNCHANGED <<wrModel, wrPoint, wrValue, wrWalk, wrCached, wrWrites>>
    /\ UNCHANGED nonWriteVars

\* client.writeRegisters(finalAddr, buffer) is issued
WritePointSend ==
    /\ wrPc = "ready"
    /\ WriteThrows(wrModel, wrPoint, wrValue, wrCached, wrWalk) = ""
    /\ LET i == FindPoint(ModelPoints, wrPoint)
           finalAddr == WriteModelAddr(wrModel, wrCached, wrWalk) + PointOffset(ModelPoints, i)
       IN wrWrites' = Append(wrWrites,
                             <<finalAddr, WriteBuffer(ModelPoints[i].type,
                                                      WriteVal(ModelPoints[i], wrValue))>>)
    /\ wrPc' = "writing"
    /\ UNCHANGED <<wrModel, wrPoint, wrValue, wrWalk, wrCached, wrResult, wrErr>>
    /\ UNCHANGED nonWriteVars

\* the device acknowledges the write
WritePointAck ==
    /\ wrPc = "writing"
    /\ wrPc' = "done"
    /\ wrResult' = "true"
    /\ UNCHANGED <<wrModel, wrPoint, wrValue, wrWalk, wrCached, wrWrites, wrErr>>
    /\ UNCHANGED nonWriteVars

\* the write is rejected or times out
WritePointNack(timedOut) ==
    /\ wrPc = "writing"
    /\ wrPc' = "done"
    /\ wrResult' = "error"
    /\ wrErr' = IF timedOut THEN "Timeout: Device did not respond to write request."
                ELSE "Write failed: write rejected"
    /\ UNCHANGED <<wrModel, wrPoint, wrValue, wrWalk, wrCached, wrWrites>>
    /\ UNCHANGED nonWriteVars

WriteNext ==
    \/ WritePointThrow
    \/ WritePointSend
    \/ WritePointAck
    \/ \E t \in BOOLEAN : WritePointNack(t)

\* ------------------------------------------------------------------------
\* node.connectionState
\* ------------------------------------------------------------------------
\* last clock value explored
MaxTime == 3

\* what a read inside readSinglePoint's action throws
ReadFaults == {"SunSpecModelNotFoundError", "Timeout", "Read failed"}

HealthInit ==
    /\ hsNow = 1
    /\ hsLastSuccess = 0
    /\ hsLastError = 0
    /\ hsErrors = 0
    /\ hsOp = "none"

\* time passes
HealthTick ==
    /\ hsNow < MaxTime
    /\ hsNow' = hsNow + 1
    /\ UNCHANGED <<hsLastSuccess, hsLastError, hsErrors, hsOp>>
    /\ UNCHANGED nonHealthVars

\* an input message in parameter mode: triggerScan, readSinglePoint resolves
InputReadOk ==
    /\ hsOp' = "readSinglePoint"
    /\ hsLastSuccess' = hsNow
    /\ UNCHANGED <<hsNow, hsLastError, hsErrors>>
    /\ UNCHANGED nonHealthVars

\* an input message in parameter mode: readSinglePoint rejects after fault e
InputReadFail(e) ==
    /\ hsOp' = "readSinglePoint"
    /\ hsLastError' = IF e = "Read failed" THEN hsNow ELSE hsLastError
    /\ UNCHANGED <<hsNow, hsLastSuccess, hsErrors>>
    /\ UNCHANGED nonHealthVars

\* an input message that writes, or a list read: writeSinglePoint,
\* readMultiplePoints
InputOther(op) ==
    /\ hsOp' = op
    /\ UNCHANGED <<hsNow, hsLastSuccess, hsLastError, hsErrors>>
    /\ UNCHANGED nonHealthVars

\* a cycle of executeRead resolves: the .then handler
HealthCycleSuccess ==
    /\ hsOp' = "executeRead"
    /\ hsErrors' = 0
    /\ hsLastSuccess' = hsNow
    /\ UNCHANGED <<hsNow, hsLastError>>
    /\ UNCHANGED nonHealthVars

\* a cycle of executeRead rejects: the .catch handler
HealthCycleFailure ==
    /\ hsErrors < MaxFailures
    /\ hsOp' = "executeRead"
    /\ hsErrors' = hsErrors + 1
    /\ hsLastError' = hsNow
    /\ UNCHANGED <<hsNow, hsLastSuccess>>
    /\ UNCHANGED nonHealthVars

HealthNext ==
    \/ HealthTick
    \/ InputReadOk
    \/ \E e \in ReadFaults : InputReadFail(e)
    \/ \E op \in {"writeSinglePoint", "readMultiplePoints"} : InputOther(op)
    \/ HealthCycleSuccess
    \/ HealthCycleFailure

\* ------------------------------------------------------------------------
\* Base-address resolution in findModelAddress, readMultiplePoints,
\* scanDeviceModelsOnly and readSunSpecDevice
\* ------------------------------------------------------------------------
BasePaths == {"findModelAddress", "readMultiplePoints", "scanDeviceModelsOnly", "readSunSpecDevice"}
MarkerReads == {<<SUNSPEC_ID_HIGH, SUNSPEC_ID_LOW>>, <<SUNSPEC_ID_HIGH, 0>>, <<0, SUNSPEC_ID_LOW>>,
                <<0, 0>>, <<>>}
SmaSignatures == {8128, 9397, 19135}
SmaReads == SmaSignatures \cup {0, -1}

BaseIdle ==
    /\ baPath = "findModelAddress"
    /\ baMarker = <<>>
    /\ baSma = -1
    /\ baPc = "idle"
    /\ baAddr = 0

\* a call of one of the four functions on some device
BaseInit ==
    /\ baPath \in BasePaths
    /\ baMarker \in MarkerReads
    /\ baSma \in SmaReads
    /\ baPc = "start"
    /\ baAddr = 0

\* findModelAddress(client, modelId): the default, the marker read swallowed
BaseFind ==
    /\ baPc = "start"
    /\ baPath = "findModelAddress"
    /\ baPc' = "walk"
    /\ baAddr' = BaseAfterMarker(baMarker)
    /\ UNCHANGED <<baPath, baMarker, baSma>>
    /\ UNCHANGED nonBaseVars

\* readMultiplePoints: let base = 40002; the marker read changes nothing
BaseBatch ==
    /\ baPc = "start"
    /\ baPath = "readMultiplePoints"
    /\ baPc' = "walk"
    /\ baAddr' = BASE_ADDR_40002
    /\ UNCHANGED <<baPath, baMarker, baSma>>
    /\ UNCHANGED nonBaseVars

\* scanDeviceModelsOnly: the walk is entered on the first marker word alone;
\* otherwise the SMA signature decides between the fixed answer and {}
BaseModelsOnly ==
    /\ baPc = "start"
    /\ baPath = "scanDeviceModelsOnly"
    /\ IF baMarker # <<>> /\ baMarker[1] = SUNSPEC_ID_HIGH
       THEN baPc' = "walk" /\ baAddr' = BASE_ADDR_40002
       ELSE /\ baPc' = IF baSma \in SmaSignatures THEN "sma" ELSE "empty"
            /\ UNCHANGED baAddr
    /\ UNCHANGED <<baPath, baMarker, baSma>>
    /\ UNCHANGED nonBaseVars

\* readSunSpecDevice: both marker words or return null
BaseFull ==
    /\ baPc = "start"
    /\ baPath = "readSunSpecDevice"
    /\ IF baMarker = <<SUNSPEC_ID_HIGH, SUNSPEC_ID_LOW>>
       THEN baPc' = "walk" /\ baAddr' = BASE_ADDR_40002
       ELSE baPc' = "null" /\ UNCHANGED baAddr
    /\ UNCHANGED <<baPath, baMarker, baSma>>
    /\ UNCHANGED nonBaseVars

BaseNext ==
    \/ BaseFind
    \/ BaseBatch
    \/ BaseModelsOnly
    \/ BaseFull

\* ------------------------------------------------------------------------
\* The fields of a block: fetchPointValue, the offset of writeSinglePoint,
\* scanImplementedPoints
\* ------------------------------------------------------------------------
\* a schema whose last points declare their offset, and one that declares sizes
OffsetPoints ==
    << [name |-> "ID",   type |-> "uint16", sf |-> NoSf,   staticScale |-> NoScale],
       [name |-> "L",    type |-> "uint16", sf |-> NoSf,   staticScale |-> NoScale],
       [name |-> "Pad",  type |-> "pad",    sf |-> NoSf,   staticScale |-> NoScale, size |-> 4],
       [name |-> "E",    type |-> "uint64", sf |-> NoSf,   staticScale |-> NoScale],
       [name |-> "P",    type |-> "int32",  sf |-> "V_SF", staticScale |-> NoScale],
       [name |-> "V",    type |-> "uint16", sf |-> "V_SF", staticScale |-> NoScale, offset |-> 14],
       [name |-> "V_SF", type |-> "sunssf", sf |-> NoSf,   staticScale |-> NoScale, offset |-> 16] >>

BlockSchemas == {ModelPoints, OffsetPoints}

\* the points asked for
BlockPointArgs == {"A", "W", "WH", "Cnt", "Evt", "PF", "P", "V", "V_SF", "Bogus"}

\* registers from the first to the last one a point of the schema occupies
BlockSpan(points) ==
    LET ends == {PointOffset(points, i) + PointSize(points[i]) : i \in 1..Len(points)}
    IN CHOOSE e \in ends : \A f \in ends : f <= e

\* the block of a device whose point pointName holds <<w1, w2>> and whose scale
\* factors all hold sfw
BlockRegsOf(points, pointName, w1, w2, sfw) ==
    LET i == FindPoint(points, pointName)
        off == IF i = 0 THEN -2 ELSE PointOffset(points, i)
        size == IF i = 0 THEN 0 ELSE PointSize(points[i])
        isSf(k) == \E n \in 1..Len(points) :
                      /\ points[n].type = "sunssf"
                      /\ PointOffset(points, n) + 1 = k
    IN [k \in 1..BlockSpan(points) |->
          IF k = off + 1 THEN w1
          ELSE IF k = off + 2 /\ size = 2 THEN w2
          ELSE IF isSf(k) THEN sfw
          ELSE 0]

\* the cap on the registers of the block read
SAFE_LEN == 120

\* isImplemented after the typed test of scanImplementedPoints
ScanImplemented(type, w) ==
    IF type = "int16" THEN ReadInt16BE(w) # -32768
    ELSE IF type \in {"uint16", "enum16"} THEN ReadUInt16BE(w) # 65535
    ELSE IF type \in {"int32", "acc32"} THEN ReadInt32BE(w) # <<-32768, 0>>
    ELSE IF type = "uint32" THEN ReadUInt32BE(w) # <<65535, 65535>>
    ELSE TRUE

\* the loop over the points from index i on, offset being the sizes summed so far
RECURSIVE ScanFrom(_, _, _, _, _)
ScanFrom(points, regs, safeLen, i, offset) ==
    IF i > Len(points) THEN <<>>
    ELSE LET p == points[i]
             size == PointSize(p)
             rest == ScanFrom(points, regs, safeLen, i + 1, offset + size)
         IN IF offset + size > safeLen THEN rest
            ELSE IF p.type \in {"pad", "sunssf"} THEN rest
            ELSE IF ScanImplemented(p.type, ReadRegs(regs, offset, size)) THEN <<p.name>> \o rest
            ELSE rest

\* scanImplementedPoints(client, models, modelId, modelAddr, modelLen):
\* <<implementedPoints, register reads issued>>
ScanImplementedPoints(points, regs, modelLen, failed) ==
    IF modelLen = 0 THEN << <<>>, 0 >>
    ELSE IF failed THEN << <<>>, 1 >>
    ELSE << ScanFrom(points, regs, Min(modelLen, SAFE_LEN), 1, 0), 1 >>

BlockIdle ==
    /\ bkPoints = <<>>
    /\ bkRegs = <<>>
    /\ bkPoint = "none"
    /\ bkLen = 0
    /\ bkPc = "idle"
    /\ bkOp = "none"
    /\ bkValue = Null
    /\ bkValueAt = -1
    /\ bkSfAt = -1
    /\ bkScan = <<>>
    /\ bkReads = 0
    /\ bkFailed = FALSE

\* a block of some device and a field of its schema
BlockInit ==
    /\ bkPoints \in BlockSchemas
    /\ bkPoint \in BlockPointArgs
    /\ \E w1 \in Words, w2 \in {0, 65535}, sfw \in {65534, 32768} :
          bkRegs = BlockRegsOf(bkPoints, bkPoint, w1, w2, sfw)
    /\ bkLen \in {4, BlockSpan(bkPoints) - 2, BlockSpan(bkPoints)}
    /\ bkPc = "ready"
    /\ bkOp = "none"
    /\ bkValue = Null
    /\ bkValueAt = -1
    /\ bkSfAt = -1
    /\ bkScan = <<>>
    /\ bkReads = 0
    /\ bkFailed = FALSE

\* fetchPointValue on the block: the value, and the offsets of its two reads
FetchBlockPoint ==
    /\ bkPc = "ready"
    /\ bkPc' = "done"
    /\ bkOp' = "fetchPointValue"
    /\ bkValue' = FetchPointValue(bkPoints, bkRegs, bkPoint, FALSE, FALSE)
    /\ LET i == FindPoint(bkPoints, bkPoint)
           j == FindPoint(bkPoints, bkPoints[i].sf)
           raw == DecodeRaw(bkPoints[i].type,
                            ReadRegs(bkRegs, PointOffset(bkPoints, i), PointSize(bkPoints[i])))
       IN /\ bkValueAt' = IF i = 0 THEN -1 ELSE PointOffset(bkPoints, i)
          /\ bkSfAt' = IF /\ i # 0
                          /\ ~raw.null
                          /\ bkPoints[i].staticScale = NoScale
                          /\ bkPoints[i].sf # NoSf
                          /\ bkPoints[i].name \notin {"W", "VA"}
                          /\ j # 0
                       THEN SfOffset(bkPoints, j)
                       ELSE -1
    /\ UNCHANGED <<bkPoints, bkRegs, bkPoint, bkLen, bkScan, bkReads, bkFailed>>
    /\ UNCHANGED nonBlockVars

\* writeSinglePoint on the block: pointOffset of the register written
WriteBlockPoint ==
    /\ bkPc = "ready"
    /\ bkPc' = "done"
    /\ bkOp' = "writeSinglePoint"
    /\ LET i == FindPoint(bkPoints, bkPoint)
       IN bkValueAt' = IF i # 0 /\ SupportedWrite(bkPoints[i].type)
                       THEN PointOffset(bkPoints, i)
                       ELSE -1
    /\ UNCHANGED <<bkPoints, bkRegs, bkPoint, bkLen, bkValue, bkSfAt, bkScan, bkReads, bkFailed>>
    /\ UNCHANGED nonBlockVars

\* scanImplementedPoints on the block
ScanBlock(failed) ==
    /\ bkPc = "ready"
    /\ bkPc' = "done"
    /\ bkOp' = "scanImplementedPoints"
    /\ bkFailed' = (failed /\ bkLen # 0)
    /\ bkScan' = ScanImplementedPoints(bkPoints, bkRegs, bkLen, failed)[1]
    /\ bkReads' = ScanImplementedPoints(bkPoints, bkRegs, bkLen, failed)[2]
    /\ UNCHANGED <<bkPoints, bkRegs, bkPoint, bkLen, bkValue, bkValueAt, bkSfAt>>
    /\ UNCHANGED nonBlockVars

BlockNext ==
    \/ FetchBlockPoint
    \/ WriteBlockPoint
    \/ \E failed \in BOOLEAN : ScanBlock(failed)

\* ------------------------------------------------------------------------
\* POST /sunspec-scan/discover and POST /sunspec-scan/stop
\* ------------------------------------------------------------------------
\* discover requests, hosts per request and unit IDs per host explored
MaxRuns == 2
MaxHosts == 2
MaxIds == 2

DiscoverRuns == 1..MaxRuns

DiscoverInit ==
    /\ dsStop = FALSE
    /\ dsPc = [r \in DiscoverRuns |-> "idle"]
    /\ dsHost = [r \in DiscoverRuns |-> 0]
    /\ dsId = [r \in DiscoverRuns |-> 0]
    /\ dsCancelled = [r \in DiscoverRuns |-> FALSE]
    /\ dsWork = [r \in DiscoverRuns |-> 0]

\* the request arrives: activeScan.stop = false, ips parsed, the loop over the
\* hosts is entered
DiscoverBegin(r) ==
    /\ dsPc[r] = "idle"
    /\ dsStop' = FALSE
    /\ dsPc' = [dsPc EXCEPT ![r] = "atHost"]
    /\ UNCHANGED <<dsHost, dsId, dsCancelled, dsWork>>
    /\ UNCHANGED nonDiscoverVars

\* top of the loop over the hosts: if (activeScan.stop) break; checkPort(...)
DiscoverNextHost(r) ==
    /\ dsPc[r] = "atHost"
    /\ IF dsStop \/ dsHost[r] = MaxHosts
       THEN /\ dsPc' = [dsPc EXCEPT ![r] = "done"]
            /\ UNCHANGED <<dsHost, dsWork>>
       ELSE /\ dsPc' = [dsPc EXCEPT ![r] = "checkPort"]
            /\ dsHost' = [dsHost EXCEPT ![r] = @ + 1]
            /\ dsWork' = [dsWork EXCEPT ![r] = @ + 1]
    /\ UNCHANGED <<dsStop, dsId, dsCancelled>>
    /\ UNCHANGED nonDiscoverVars

\* checkPort resolves: a closed port skips the host, an open one enters
\* scanUnitIds
DiscoverPortChecked(r, open) ==
    /\ dsPc[r] = "checkPort"
    /\ dsPc' = [dsPc EXCEPT ![r] = IF open THEN "atId" ELSE "atHost"]
    /\ dsId' = [dsId EXCEPT ![r] = 0]
    /\ UNCHANGED <<dsStop, dsHost, dsCancelled, dsWork>>
    /\ UNCHANGED nonDiscoverVars

\* top of the loop of scanUnitIds: if (shouldStop && shouldStop()) break
DiscoverNextId(r) ==
    /\ dsPc[r] = "atId"
    /\ IF dsStop \/ dsId[r] = MaxIds
       THEN /\ dsPc' = [dsPc EXCEPT ![r] = "atHost"]
            /\ UNCHANGED <<dsId, dsWork>>
       ELSE /\ dsPc' = [dsPc EXCEPT ![r] = "probe"]
            /\ dsId' = [dsId EXCEPT ![r] = @ + 1]
            /\ dsWork' = [dsWork EXCEPT ![r] = @ + 1]
    /\ UNCHANGED <<dsStop, dsHost, dsCancelled>>
    /\ UNCHANGED nonDiscoverVars

\* the marker reads of the probed unit ID have settled
DiscoverProbed(r) ==
    /\ dsPc[r] = "probe"
    /\ dsPc' = [dsPc EXCEPT ![r] = "atId"]
    /\ UNCHANGED <<dsStop, dsHost, dsId, dsCancelled, dsWork>>
    /\ UNCHANGED nonDiscoverVars

\* POST /sunspec-scan/stop: activeScan.stop = true
DiscoverStop ==
    /\ dsStop' = TRUE
    /\ dsCancelled' = [r \in DiscoverRuns |->
                          dsCancelled[r] \/ dsPc[r] \notin {"idle", "done"}]
    /\ UNCHANGED <<dsPc, dsHost, dsId, dsWork>>
    /\ UNCHANGED nonDiscoverVars

DiscoverNext ==
    \/ \E r \in DiscoverRuns : DiscoverBegin(r)
    \/ \E r \in DiscoverRuns : DiscoverNextHost(r)
    \/ \E r \in DiscoverRuns, open \in BOOLEAN : DiscoverPortChecked(r, open)
    \/ \E r \in DiscoverRuns : DiscoverNextId(r)
    \/ \E r \in DiscoverRuns : DiscoverProbed(r)
    \/ DiscoverStop

\* ------------------------------------------------------------------------
\* Specifications
\* ------------------------------------------------------------------------
Init == PoolInit /\ DirectInit /\ RetryInit /\ WalkIdle /\ ReadInit /\ DecodeIdle /\ ParseIdle /\ IpIdle /\ ScanIdle /\ ListIdle /\ WriteIdle /\ HealthInit /\ DiscoverInit /\ BaseIdle /\ BlockIdle

\* the connection pool under request(), session events and the idle sweep
Next == PoolNext

Spec == Init /\ [][Next]_vars

\* the pool together with the engine operations that bypass it
NextEngine ==
    \/ PoolNext
    \/ DirectNext

SpecEngine == Init /\ [][NextEngine]_vars

\* the next step of request r: the continuation of its promise chain runs, its
\* connection attempt settles, its action settles, its cool-down timer fires
Progress(r) ==
    \/ StartReuse(r) \/ StartConnect(r)
    \/ ConnectOk(r) \/ \E err \in Faults : ConnectFail(r, err)
    \/ ActionOk(r) \/ \E err \in Faults : ActionFail(r, err)
    \/ CooldownDone(r)

\* the event loop runs a step that can run
PoolFairness == WF_vars(\E r \in ReqIds : Progress(r))

SpecPoolLive == Init /\ [][Next]_vars /\ PoolFairness

\* the retry scheduler of one node with auto-read enabled
NextRetry == RetryNext

SpecRetry == Init /\ [][NextRetry]_vars

\* findModelAddress on every explored device
InitWalk == PoolInit /\ DirectInit /\ RetryInit /\ WalkInit /\ ReadInit /\ DecodeIdle /\ ParseIdle /\ IpIdle /\ ScanIdle /\ ListIdle /\ WriteIdle /\ HealthInit /\ DiscoverInit /\ BaseIdle /\ BlockIdle

NextWalk == WalkNext

SpecWalk == InitWalk /\ [][NextWalk]_vars

\* findModelAddress on devices that never present the end marker
InitWalkEndless == PoolInit /\ DirectInit /\ RetryInit /\ WalkInitEndless /\ ReadInit /\ DecodeIdle /\ ParseIdle /\ IpIdle /\ ScanIdle /\ ListIdle /\ WriteIdle /\ HealthInit /\ DiscoverInit /\ BaseIdle /\ BlockIdle

SpecWalkEndless == InitWalkEndless /\ [][NextWalk]_vars

\* the pool with readSinglePoint and writeSinglePoint as the requests' actions
NextPooledOps ==
    \/ PoolNext
    \/ PooledOpsNext

SpecPooledOps == Init /\ [][NextPooledOps]_vars

\* readSinglePoint calls of one node
NextRead == ReadNext

SpecRead == Init /\ [][NextRead]_vars

\* fetchPointValue on every explored block
InitDecode == PoolInit /\ DirectInit /\ RetryInit /\ WalkIdle /\ ReadInit /\ DecodeInit /\ ParseIdle /\ IpIdle /\ ScanIdle /\ ListIdle /\ WriteIdle /\ HealthInit /\ DiscoverInit /\ BaseIdle /\ BlockIdle

NextDecode == DecodeNext

SpecDecode == InitDecode /\ [][NextDecode]_vars

\* parseUnitIds on every explored string
InitParse == PoolInit /\ DirectInit /\ RetryInit /\ WalkIdle /\ ReadInit /\ DecodeIdle /\ ParseInit /\ IpIdle /\ ScanIdle /\ ListIdle /\ WriteIdle /\ HealthInit /\ DiscoverInit /\ BaseIdle /\ BlockIdle

NextParse == ParseNext

SpecParse == InitParse /\ [][NextParse]_vars

\* parseIpRange on every explored string
InitIp ==
    /\ PoolInit /\ DirectInit /\ RetryInit /\ WalkIdle /\ ReadInit /\ DecodeIdle /\ ParseIdle
    /\ IpInit /\ ScanIdle /\ ListIdle /\ WriteIdle /\ HealthInit /\ DiscoverInit /\ BaseIdle /\ BlockIdle

NextIp == IpNext

SpecIp == InitIp /\ [][NextIp]_vars

\* scanUnitIds on every explored host
InitScan ==
    /\ PoolInit /\ DirectInit /\ RetryInit /\ WalkIdle /\ ReadInit /\ DecodeIdle /\ ParseIdle
    /\ IpIdle /\ ScanInit /\ ListIdle /\ WriteIdle /\ HealthInit /\ DiscoverInit /\ BaseIdle /\ BlockIdle

NextScan == ScanNext

SpecScan == InitScan /\ [][NextScan]_vars

\* triggerScan in list mode on every explored output list
InitList ==
    /\ PoolInit /\ DirectInit /\ RetryInit /\ WalkIdle /\ ReadInit /\ DecodeIdle /\ ParseIdle
    /\ IpIdle /\ ScanIdle /\ ListInit /\ WriteIdle /\ HealthInit /\ DiscoverInit /\ BaseIdle /\ BlockIdle

NextList == ListNext

SpecList == InitList /\ [][NextList]_vars

\* the action of writeSinglePoint on every explored request
InitWrite ==
    /\ PoolInit /\ DirectInit /\ RetryInit /\ WalkIdle /\ ReadInit /\ DecodeIdle /\ ParseIdle
    /\ IpIdle /\ ScanIdle /\ ListIdle /\ WriteInit /\ HealthInit /\ DiscoverInit /\ BaseIdle /\ BlockIdle

NextWrite == WriteNext

SpecWrite == InitWrite /\ [][NextWrite]_vars

\* the operations that may write node.connectionState
NextHealth == HealthNext

SpecHealth == Init /\ [][NextHealth]_vars

\* concurrent discover requests and stop requests
NextDiscover == DiscoverNext

SpecDiscover == Init /\ [][NextDiscover]_vars

\* base-address resolution on every device answer
InitBase == PoolInit /\ DirectInit /\ RetryInit /\ WalkIdle /\ ReadInit /\ DecodeIdle /\ ParseIdle /\ IpIdle /\ ScanIdle /\ ListIdle /\ WriteIdle /\ HealthInit /\ DiscoverInit /\ BaseInit /\ BlockIdle

NextBase == BaseNext

SpecBase == InitBase /\ [][NextBase]_vars

\* the field operations on every block
InitBlock == PoolInit /\ DirectInit /\ RetryInit /\ WalkIdle /\ ReadInit /\ DecodeIdle /\ ParseIdle /\ IpIdle /\ ScanIdle /\ ListIdle /\ WriteIdle /\ HealthInit /\ DiscoverInit /\ BaseIdle /\ BlockInit

NextBlock == BlockNext

SpecBlock == InitBlock /\ [][NextBlock]_vars

\* ------------------------------------------------------------------------
\* Properties of the connection pool
\* ------------------------------------------------------------------------
\* the action of request r has been invoked with a client
Started(r) == rClient[r] # 0

\* the error carries one of the fatal indicators in its message
HasFatalIndicator(err) == err # NoMessage /\ err \cap fatalErrors # {}

\* sessions of key k the pool established, still open and never closed
LiveSessions(k) == {s \in SessIds : s <= nsess /\ sKey[s] = k /\ sOpen[s] /\ ~sCloseCalled[s]}

\* C1: at most one caller action per (host,port) key is executing at any time
C1_OneActionPerKey ==
    \A k \in Keys : Cardinality({r \in ReqIds : rKey[r] = k /\ rPc[r] = "running"}) <= 1

\* C2: actions of one key start in submission order: once the action of a later
\* request has started, no earlier request of the key is still waiting to start
C2_FifoStart ==
    \A r1, r2 \in ReqIds :
        (r1 < r2 /\ rKey[r1] = rKey[r2] /\ Started(r2)) => rPc[r1] \notin {"queued", "connecting"}

\* C3: an action is never handed a dead session: the client it is started with
\* is either a connection established for it in that step, or a session that
\* reports open and on which no action failed with a fatal indicator
C3_FreshAfterFatal ==
    [][\A r \in ReqIds :
          (rPc[r] # "running" /\ rPc'[r] = "running") =>
              \/ rClient'[r] = nsess + 1
              \/ (rClient'[r] <= nsess /\ sOpen[rClient'[r]] /\ ~sFaulted[rClient'[r]])]_vars

\* C3 witness: after a fatal fault on one session an action of the same key runs
\* on a later, freshly established one
C3_Witness ==
    \E r \in ReqIds, s \in SessIds :
        /\ rPc[r] = "running" /\ s < rClient[r]
        /\ sFaulted[s] /\ sKey[s] = rKey[r]

\* C4: a failure without a fatal indicator leaves the pool untouched (no
\* invalidate, entry and session stay), and a dequeued action whose entry holds
\* an open session is started on that session without a new connection
C4_NonFatalFrame ==
    [][/\ \A r \in ReqIds :
             (rPc[r] = "running" /\ rPc'[r] = "rejected" /\ ~HasFatalIndicator(lastErr')) =>
                 /\ pool' = pool /\ eClient' = eClient /\ idle' = idle
                 /\ sOpen' = sOpen /\ sCloseCalled' = sCloseCalled
       /\ \A r \in ReqIds :
             (rPc[r] = "queued" /\ rPc'[r] # "queued" /\ Healthy(eClient[rEntry[r]])) =>
                 /\ rPc'[r] = "running" /\ rClient'[r] = eClient[rEntry[r]]
                 /\ nsess' = nsess]_vars

\* C4 witness: an action runs on the session on which the previous action of
\* the key failed with a non-fatal error
C4_Witness ==
    \E r0, r \in ReqIds :
        /\ r0 < r /\ rKey[r0] = rKey[r]
        /\ rPc[r0] = "rejected" /\ rClient[r0] # 0 /\ rClient[r] = rClient[r0]
        /\ rPc[r] = "running" /\ ~sFaulted[rClient[r]]

\* C5: at most one open session established by the pool exists per key
C5_OneSessionPerKey ==
    \A k \in Keys : Cardinality(LiveSessions(k)) <= 1

\* ------------------------------------------------------------------------
\* Properties of the engine operations
\* ------------------------------------------------------------------------
\* C6: no engine operation issues transport requests on a session that was
\* not handed out by the connection pool
C6_AllThroughPool ==
    \A d \in DirectIds : dPc[d] # "reading"

\* ------------------------------------------------------------------------
\* Properties of the retry scheduler
\* ------------------------------------------------------------------------
\* C7: no two auto-read cycles are in flight at the same time
C7_OneCycleInFlight == inFlight <= 1

\* C8: after the n-th consecutive failure the scheduled delay is
\* min(1000 * 2^(n-1), 30000) ms
C8_DelayFormula ==
    lastSettle = "failure" =>
        delay = Min(BASE_RETRY_DELAY * 2^(consecutiveErrors - 1), MAX_RETRY_DELAY)

\* C9: a failure that follows a failure schedules a delay no shorter than the
\* previous one, a success resets the failure counter to 0, and a failure
\* that follows a success (or nothing) is scheduled with the base delay
C9_BackoffMonotoneReset ==
    [][/\ (retryTimers' = retryTimers + 1 /\ lastSettle = "failure") => delay' >= delay
       /\ (retryTimers' = retryTimers + 1 /\ lastSettle # "failure") => delay' = BASE_RETRY_DELAY
       /\ (lastSettle' = "success") => consecutiveErrors' = 0]_vars

\* C9 witness: a success has ended a run of at least two failures (the last
\* delay scheduled was longer than the base delay) and reset the counter
C9_Witness ==
    /\ lastSettle = "success" /\ consecutiveErrors = 0
    /\ delay > BASE_RETRY_DELAY

\* ------------------------------------------------------------------------
\* Properties of the chain walk
\* ------------------------------------------------------------------------
\* header address of record i of the chain laid out from base
RECURSIVE HeaderAddr(_, _, _)
HeaderAddr(chain, base, i) ==
    IF i = 1 THEN base ELSE HeaderAddr(chain, base, i - 1) + 2 + chain[i - 1][2]

\* indexes of the records whose block id is the target
Matches(chain, target) == {i \in 1..Len(chain) : chain[i][1] = target}

FirstMatch(chain, target) ==
    CHOOSE i \in Matches(chain, target) : \A j \in Matches(chain, target) : i <= j

\* C10: findModelAddress returns the header address of the first record whose
\* block id equals the target, and -1 when no record before the end marker does
C10_WalkResult ==
    wPc = "returned" =>
        wResult = IF Matches(wChain, wTarget) = {}
                  THEN NotFound
                  ELSE HeaderAddr(wChain, DeviceBase, FirstMatch(wChain, wTarget))

\* C10 witness: the target is found in a record that is not the first one,
\* behind a record with a payload
C10_Witness ==
    /\ wPc = "returned" /\ wResult # NotFound
    /\ Len(wChain) >= 2 /\ wChain[1][2] > 0
    /\ FirstMatch(wChain, wTarget) >= 2

\* C11: a chain walk stops after a bounded number of header reads: a walk that
\* is still going has issued fewer than MaxHops reads
C11_WalkBounded ==
    wPc = "walk" => wHops < MaxHops

\* C14: a cycle that fails with BlockNotFound (SunSpecModelNotFoundError) does
\* not get a backoff retry scheduled: no retry timer is armed by that failure
C14_NotFoundNotRetried ==
    [][(/\ inFlight' = inFlight - 1 /\ lastSettle' = "failure"
        /\ lastCause' = "SunSpecModelNotFoundError")
          => retryTimers' = retryTimers]_vars

\* ------------------------------------------------------------------------
\* Properties of readSinglePoint
\* ------------------------------------------------------------------------
\* C12: once a call has resolved the address of a block on a device, a later
\* call for the same device and block issues no chain-walk header reads
C12_CacheHitNoWalk ==
    [][(rdCalls' = rdCalls + 1 /\ <<rdDev', rdModel'>> \in rdResolved)
          => rdHeaderReads' = 0]_vars

\* C13: when a register read or write inside readSinglePoint or writeSinglePoint
\* fails with a transport fault that carries a fatal indicator, the request is
\* rejected, the key's pool entry is invalidated and the entry's client is dropped
C13_FatalFaultInvalidates ==
    [][\A r \in ReqIds :
          (/\ rPc[r] = "running" /\ rPc'[r] = "rejected"
           /\ \E e \in TransportFaults :
                 /\ HasFatalIndicator(e)
                 /\ lastErr' \in {ReadPointError(e), WritePointError(e)})
          => /\ pool'[rKey[r]] = 0
             /\ eClient'[rEntry[r]] = 0]_vars

\* C15: a call for a field name the block's schema does not contain ends in a
\* FieldNotFound error (SunSpecPointNotFoundError), not in the null of a
\* not-implemented field
C15_FieldNotFound ==
    (/\ rdCalls > 0 /\ rdPoint \notin SchemaPoints
     /\ rdOutcome # "SunSpecModelNotFoundError")
        => rdOutcome = "SunSpecPointNotFoundError"

\* ------------------------------------------------------------------------
\* Properties of fetchPointValue
\* ------------------------------------------------------------------------
\* the types that reserve a sentinel
SentinelTypes == {"int16", "sunssf", "uint16", "enum16", "bitfield16", "int32", "uint32", "acc32"}

\* isNotImplemented(value, type)
IsNotImplemented(value, type) ==
    CASE type \in {"int16", "sunssf"} -> value = Big(INT16_NOT_IMPL)
      [] type \in {"uint16", "enum16", "bitfield16"} -> value = Big(UINT16_NOT_IMPL)
      [] type = "int32" -> value = INT32_NOT_IMPL
      [] type \in {"uint32", "acc32"} -> value = UINT32_NOT_IMPL
      [] OTHER -> FALSE

\* the raw value of the point at the full width of its type
FullRaw(type, w) ==
    CASE type \in {"int16", "sunssf"} -> Big(ReadInt16BE(w))
      [] type \in {"uint16", "enum16", "bitfield16"} -> Big(ReadUInt16BE(w))
      [] type = "int32" -> ReadInt32BE(w)
      [] type \in {"uint32", "acc32"} -> ReadUInt32BE(w)

\* the definition of the point of the call and the words the device holds for it
FpPointDef == ModelPoints[FindPoint(ModelPoints, fpPoint)]

FpPointWords ==
    ReadRegs(fpRegs, SizeBefore(ModelPoints, FindPoint(ModelPoints, fpPoint)), PointSize(FpPointDef))

\* C16: for a point of a type with a sentinel the decoder returns null exactly
\* when the raw value is the sentinel isNotImplemented names for the type, and
\* the full-width raw value otherwise (seen on points that are not scaled)
C16_SentinelDecode ==
    (fpPc = "done" /\ fpPoint # "Bogus" /\ FpPointDef.type \in SentinelTypes) =>
        LET raw == FullRaw(FpPointDef.type, FpPointWords)
        IN /\ fpResult.null <=> IsNotImplemented(raw, FpPointDef.type)
           /\ (~fpResult.null /\ FpPointDef.sf = NoSf /\ FpPointDef.staticScale = NoScale)
                 => fpResult = Num(raw, 0)

\* the point of the call names a scale factor of the schema and is not one of
\* the points the decoder leaves unscaled
FpScaled ==
    /\ fpPc = "done" /\ fpPoint # "Bogus"
    /\ FpPointDef.sf # NoSf
    /\ FindPoint(ModelPoints, FpPointDef.sf) # 0
    /\ FpPointDef.name \notin {"W", "VA"}
    /\ ~fpResult.null

\* the signed 16-bit value of the scale factor the point names
FpSf == ReadInt16BE(ReadRegs(fpRegs, SizeBefore(ModelPoints, FindPoint(ModelPoints, FpPointDef.sf)), 1))

\* raw * 10^sf, the raw value itself when the scale factor holds its sentinel
FpExact ==
    IF FpSf = INT16_NOT_IMPL
    THEN Num(FullRaw(FpPointDef.type, FpPointWords), 0)
    ELSE Num(FullRaw(FpPointDef.type, FpPointWords), FpSf)

IsNumeral(str) == str # <<>> /\ \A i \in 1..Len(str) : str[i] \in Digits

\* the integers a token names: N for a numeral, A..B for a range of numerals
TokenNames(tok) ==
    LET sides == TrimAll(Split(tok, "-"))
    IN IF IsNumeral(tok) THEN {DigitsVal(tok)}
       ELSE IF Len(sides) = 2 /\ IsNumeral(sides[1]) /\ IsNumeral(sides[2])
            THEN DigitsVal(sides[1])..DigitsVal(sides[2])
            ELSE {}

\* the integers a token yields when its numbers are read as parseInt reads them
TokenReads(tok) == {PartIds(tok)[i] : i \in 1..Len(PartIds(tok))}

Tokens(str) == TrimAll(Split(str, ","))

StrictlyAscending(ids) == \A i \in 1..(Len(ids) - 1) : ids[i] < ids[i + 1]

IpNum(o) == <<o[1] * 256 + o[2], o[3] * 256 + o[4]>>

\* the network address of o under prefix length p: the host bits cleared
Network(o, p) ==
    LET n == IpNum(o)
        h == 32 - p
    IN IF h <= 16 THEN <<n[1], n[2] - (n[2] % Pow2(h))>>
       ELSE <<n[1] - (n[1] % Pow2(h - 16)), 0>>

OctetsOf(n) == <<n[1] \div 256, n[1] % 256, n[2] \div 256, n[2] % 256>>

\* the k-th address after the network address, as text
HostText(o, p, k) == DottedQuad(OctetsOf(AddSmall(Network(o, p), k)))

\* the hosts of a.b.c.d/p: strictly between network and broadcast address,
\* ascending, 2^(32-p) - 2 of them (none when that is not positive); for a
\* subnet too large to list, that the list starts with the first host
IsHostList(ips, o, p) ==
    IF 32 - p <= 8
    THEN LET n == IF Pow2(32 - p) - 2 > 0 THEN Pow2(32 - p) - 2 ELSE 0
         IN ips = [k \in 1..n |-> HostText(o, p, k)]
    ELSE ips # <<>> /\ ips[1] = HostText(o, p, 1)

IsMagic(str) == Trim(str) = MagicAll \/ Trim(str) = MagicAny

\* C19: for a CIDR string a.b.c.d/p the result is exactly the hosts strictly
\* between network and broadcast address, ascending; the local subnets are
\* expanded by the same rule
C19_CidrHosts ==
    ipPc = "done" =>
        /\ \A o \in IpBases, p \in Prefixes :
              (ipStr = CidrStr(o, p) /\ ~IsMagic(ipStr)) => IsHostList(ipResult, o, p)
        /\ \A nets \in LocalNets :
              (IsMagic(ipStr) /\ ipIfaces = IfacesOf(nets)) =>
                 /\ \A i, j \in 1..Len(ipResult) : ipResult[i] = ipResult[j] => i = j
                 /\ {ipResult[i] : i \in 1..Len(ipResult)}
                       = UNION { {HostText(nets[n][1], nets[n][2], k) :
                                     k \in 1..(Pow2(32 - nets[n][2]) - 2)} : n \in 1..Len(nets) }

\* ------------------------------------------------------------------------
\* Properties of scanUnitIds
\* ------------------------------------------------------------------------
\* number of times id has been probed
Probes(id) == Cardinality({i \in 1..Len(scProbed) : scProbed[i] = id})

\* C20: with no unit ID list given, a scan of a connected host that is not
\* cancelled has probed every unit ID 1..247 exactly once, the priority IDs
\* first, whatever the port
C20_AllIdsProbed ==
    (scPc = "done" /\ scOverride = <<>> /\ ~scBroke) =>
        /\ \A id \in 1..MAX_UNIT_ID : Probes(id) = 1
        /\ Len(scProbed) = MAX_UNIT_ID
        /\ SubSeq(scProbed, 1, Len(PriorityIds)) = PriorityIds

\* ------------------------------------------------------------------------
\* Properties of the list read
\* ------------------------------------------------------------------------
\* the address of the header of block mid on device d, 0 when d has no such block
HeaderAddress(d, mid) ==
    LET chain == ListChain(d)
    IN IF \E k \in 1..Len(chain) : chain[k] = mid
       THEN BASE_ADDR_40002 + BlockLen * ((CHOOSE k \in 1..Len(chain) : chain[k] = mid) - 1)
       ELSE 0

\* the decoded value of an item: what fetchPointValue yields at the block's
\* header address
DecodedValue(item, round) ==
    FetchPointValue(ModelPoints, RegsFrom(item.device, HeaderAddress(item.device, item.model)),
                    item.point, round, FALSE)

\* C21: the array sent has one slot per requested item, in request order: slot
\* i is null when the item's block is absent from its device or its group
\* failed, and the decoded value of item i otherwise
C21_BatchSlots ==
    lsPc = "sent" =>
        /\ Len(lsFinal) = Len(lsItems)
        /\ \A i \in 1..Len(lsItems) :
              lsFinal[i] = IF \/ lsItems[i].device \in lsFailed
                              \/ HeaderAddress(lsItems[i].device, lsItems[i].model) = 0
                           THEN Null
                           ELSE DecodedValue(lsItems[i], lsRound)

\* C21 without the values: the slots of absent blocks and of failed groups are
\* null, and the slots of a group that succeeded are filled whatever happened
\* to the other groups
C21_SlotsByGroup ==
    lsPc = "sent" =>
        /\ Len(lsFinal) = Len(lsItems)
        /\ \A i \in 1..Len(lsItems) :
              lsFinal[i] = IF \/ lsItems[i].device \in lsFailed
                              \/ HeaderAddress(lsItems[i].device, lsItems[i].model) = 0
                           THEN Null
                           ELSE ItemValue(lsItems[i], lsRound)

\* ------------------------------------------------------------------------
\* Properties of writeSinglePoint
\* ------------------------------------------------------------------------
WritableTypes == {"uint16", "enum16", "bitfield16", "int16", "sint16", "uint32", "int32", "sint32"}

\* the field of the request is in the schema and its type is not writable
WrUnsupported ==
    /\ HasSchema(wrModel)
    /\ FindPoint(ModelPoints, wrPoint) # 0
    /\ ModelPoints[FindPoint(ModelPoints, wrPoint)].type \notin WritableTypes

\* the block or the field of the request cannot be resolved
WrUnresolved ==
    \/ ~HasSchema(wrModel)
    \/ FindPoint(ModelPoints, wrPoint) = 0
    \/ wrModel # "sma_edmm" /\ ~wrCached /\ wrWalk # "found"

\* C22: a write on a field whose type is not writable, or whose block or field
\* cannot be resolved, issues no register write and ends with an error
C22_NoWriteWhenRejected ==
    (wrPc # "idle" /\ (WrUnsupported \/ WrUnresolved)) =>
        /\ wrWrites = <<>>
        /\ wrPc # "writing"
        /\ wrPc = "done" => wrResult = "error"

C22_Witness ==
    /\ wrPc = "done"
    /\ WrUnsupported
    /\ ~WrUnresolved
    /\ wrResult = "error"
    /\ wrErr = "Write failed: Write not supported for type"

\* ------------------------------------------------------------------------
\* Properties of the pool: failed connections, cool-down, idle sweep
\* ------------------------------------------------------------------------
\* the step in which the connection attempt of request r is rejected
ConnectRejected(r) == rPc[r] = "connecting" /\ rPc'[r] = "rejected"

\* C23: when the connection attempt of a dequeued action fails, the caller's
\* promise rejects with the failure, the action is never invoked, no entry (and
\* so no session) is recorded for the key, and the request queued behind it is
\* at the head of the chain and will attempt a connection of its own
C23_ConnectFailure ==
    [][\A r \in ReqIds :
          ConnectRejected(r) =>
              LET e == rEntry[r]
              IN /\ lastErr' \in Faults
                 /\ rClient'[r] = 0
                 /\ pool'[rKey[r]] = 0
                 /\ eQueue'[e] = Tail(eQueue[e])
                 /\ eQueue'[e] # <<>> =>
                       /\ rPc'[Head(eQueue'[e])] = "queued"
                       /\ eClient'[e] = 0 \/ ~sOpen'[eClient'[e]]]_vars

\* a connection attempt failed and the request queued behind it has run on a
\* connection of its own
C23_Witness ==
    \E r \in ReqIds, q \in ReqIds :
        /\ rPc[r] = "rejected"
        /\ rClient[r] = 0
        /\ rEntry[q] = rEntry[r]
        /\ q > r
        /\ rPc[q] = "resolved"

\* the result promise of request r has settled
Settled(r) == rPc[r] \in {"resolved", "rejected"}

\* C24: when every connection attempt and every caller action settles, every
\* submitted request leaves the queue (its action starts or its connection
\* fails) and its result promise settles, whatever happened to earlier
\* requests: again and again no submitted request is left unsettled
C24_EveryRequestSettles ==
    []<>(\A r \in ReqIds : rPc[r] # "none" => Settled(r))

\* a request has resolved behind one whose action failed
C24_Witness ==
    \E r \in ReqIds, q \in ReqIds :
        /\ rPc[r] = "rejected"
        /\ rClient[r] # 0
        /\ rKey[q] = rKey[r]
        /\ q > r
        /\ rPc[q] = "resolved"

\* the step in which the promise chain of r's entry passes from r to the
\* continuation queued behind it
ChainAdvances(r) ==
    /\ rEntry[r] # 0
    /\ eQueue[rEntry[r]] # <<>>
    /\ Head(eQueue[rEntry[r]]) = r
    /\ eQueue'[rEntry[r]] = Tail(eQueue[rEntry[r]])

\* C25: after an action has settled, resolved or rejected, the next queued
\* action starts only once the cool-down timer has fired: the chain passes on
\* from a request whose action was invoked only out of its cool-down
C25_CooldownBeforeNext ==
    [][\A r \in ReqIds :
          (ChainAdvances(r) /\ rClient[r] # 0) => rPc[r] = "cooldown"]_vars

\* C25 for the actions that resolve
C25_CooldownAfterSuccess ==
    [][\A r \in ReqIds :
          (ChainAdvances(r) /\ rPc'[r] = "resolved") => rPc[r] = "cooldown"]_vars

\* at the sweep that runs next, the last activity of k's entry is older than
\* the idle threshold
OlderThanThreshold(k) == pool[k] # 0 /\ idle[k] + SWEEP_INTERVAL > IDLE_TIMEOUT

InUse(k) == pool[k] # 0 /\ eQueue[pool[k]] # <<>>

\* C27: a sweep never removes an entry that has an action in flight or queued,
\* and never closes the session of such an entry
C27_SweepSparesBusy ==
    [][Sweep =>
          \A k \in Keys :
              InUse(k) =>
                  /\ pool'[k] = pool[k]
                  /\ eClient[pool[k]] # 0 =>
                        sCloseCalled'[eClient[pool[k]]] = sCloseCalled[eClient[pool[k]]]]_vars

\* session s is not the one the map records for its key: the pool has
\* invalidated or replaced it
Stale(s) == s <= nsess /\ (pool[sKey[s]] = 0 \/ eClient[pool[sKey[s]]] # s)

\* C28: the close or error notification of a session the pool has already
\* invalidated or replaced leaves the entry now registered for the key, and
\* its session, alone
C28_StaleNotificationHarmless ==
    [][\A s \in SessIds :
          ((SessionError(s) \/ SessionClose(s, TRUE)) /\ Stale(s)) =>
              /\ pool' = pool
              /\ sCloseCalled' = sCloseCalled]_vars

\* session s is the client of the entry the map holds for its key
Referenced(s) == pool[sKey[s]] # 0 /\ eClient[pool[sKey[s]]] = s

\* C29: every session the pool has opened and not closed is the client of the
\* map entry of its key; no session stays open once its entry is gone
C29_NoLeakedSession ==
    \A s \in SessIds :
        (s <= nsess /\ sOpen[s] /\ ~sCloseCalled[s]) => Referenced(s)

\* ------------------------------------------------------------------------
\* Properties of the retry scheduler: its two behaviours
\* ------------------------------------------------------------------------
\* C30: while the node is open the scheduler is in one behaviour at a time:
\* the steady timer is not armed while a backoff retry is pending, at most one
\* backoff retry is pending, and after a successful cycle the steady timer is
\* armed
C30_OneBehaviour ==
    ~closed =>
        /\ retryTimers > 0 => intervalId # "armed"
        /\ retryTimers <= 1
        /\ lastSettle = "success" => intervalId = "armed"

\* C31: once the node is closed no steady or retry timer is armed and no
\* auto-read cycle is started, whatever was in flight at the moment of close
C31_QuietAfterClose ==
    [][closed' =>
          /\ intervalId' # "armed"
          /\ retryTimers' = 0
          /\ closed => inFlight' <= inFlight]_vars

\* ------------------------------------------------------------------------
\* Properties of node.connectionState
\* ------------------------------------------------------------------------
\* C32: connectionState is written only by the success and failure handlers
\* of executeRead: a step of readSinglePoint, writeSinglePoint or
\* readMultiplePoints started by an input message leaves it unchanged
C32_HealthOnlyByScheduler ==
    [][hsOp' \in {"readSinglePoint", "writeSinglePoint", "readMultiplePoints"} =>
          UNCHANGED <<hsLastSuccess, hsLastError, hsErrors>>]_vars

\* ------------------------------------------------------------------------
\* Properties of discovery
\* ------------------------------------------------------------------------
\* C33: a run whose cancellation has been requested starts work on no further
\* host and no further unit ID, whatever other discover requests do
C33_NoWorkAfterCancel ==
    [][\A r \in DiscoverRuns :
          dsCancelled[r] => dsWork'[r] = dsWork[r]]_vars

\* C33 while no other discover request arrives after the cancellation
C33_NoWorkWhileFlagSet ==
    [][\A r \in DiscoverRuns :
          (dsCancelled[r] /\ dsStop) => dsWork'[r] = dsWork[r]]_vars

\* the first dialect that matches unit ID id, in the order SunSpec marker, SMA
\* signature on ports other than 503, Conext on port 503
FirstDialect(id) ==
    IF id \in scDevice.dead THEN "none"
    ELSE IF id \in scDevice.sunspec THEN "sunspec"
    ELSE IF scPort # 503 /\ id \in scDevice.sma THEN "sma_edmm"
    ELSE IF scPort = 503 /\ id \in scDevice.reg0 THEN "conext_xw_503"
    ELSE "none"

Matched(id) == FirstDialect(id) # "none"

\* C34: the classification lists each probed unit ID at most once, with the
\* first dialect that matches it, in the order in which the IDs were probed
C34_FirstDialectInProbeOrder ==
    /\ \A i \in 1..Len(scFound), j \in 1..Len(scFound) :
          i # j => scFound[i][1] # scFound[j][1]
    /\ LET hits == SelectSeq(scProbed, Matched)
       IN scFound = [i \in 1..Len(hits) |-> <<hits[i], FirstDialect(hits[i])>>]

\* on port 503 an ID answering the SunSpec marker and register 0 is reported
\* as SunSpec, one answering register 0 only as Conext, in probe order
C34_Witness ==
    /\ scPc = "done"
    /\ scPort = 503
    /\ scFound = << <<1, "sunspec">>, <<3, "conext_xw_503">> >>

\* C35: a rejected read on one unit ID neither ends the loop nor drops earlier
\* results: a scan that is not cancelled probes every ID of its list and
\* reports every ID that answers; a refused connection gives an empty
\* classification; either way close() has been called when the result is
\* returned
C35_ReadFailuresSwallowed ==
    /\ scPc = "failed" => (scFound = <<>> /\ scProbed = <<>> /\ scClosed)
    /\ scPc = "done" => scClosed
    /\ (scPc = "done" /\ ~scBroke) =>
          /\ scProbed = scIds
          /\ \A i \in 1..Len(scIds) :
                Matched(scIds[i]) =>
                    \E j \in 1..Len(scFound) : scFound[j][1] = scIds[i]

\* a scan has finished with a result before and a result after a unit ID
\* whose reads were rejected
C35_Witness ==
    /\ scPc = "done"
    /\ scClosed
    /\ scIds = <<1, 2, 3>>
    /\ 2 \in scDevice.dead
    /\ scFound = << <<1, "sunspec">>, <<3, "sma_edmm">> >>

\* C36: whatever the marker read at 40000 gives (both words, other words, a
\* rejected read), every read path goes on to walk the chain, from 40002
C36_BaseNeverFailsWalk ==
    baPc \notin {"idle", "start"} => (baPc = "walk" /\ baAddr = BASE_ADDR_40002)

\* the same for findModelAddress and readMultiplePoints alone
C36_BaseOfPointReads ==
    (baPc \notin {"idle", "start"} /\ baPath \in {"findModelAddress", "readMultiplePoints"})
        => (baPc = "walk" /\ baAddr = BASE_ADDR_40002)

\* the address a complete walk of the device's chain returns for the block
WalkedAddr(dev, m) == WalkChain(DevChain(dev), BASE_ADDR_40002, m, 0)[1]

CacheSound ==
    \A dev \in DevKeys, m \in ReadModels :
        cacheAddr[dev][ModelStr(m)] # 0 =>
            /\ dev \in cacheTop
            /\ WalkedAddr(dev, m) # NotFound
            /\ cacheAddr[dev][ModelStr(m)] = WalkedAddr(dev, m)

\* C37: every cache entry is the address a walk of that device returned for
\* that block; a call that ends with not-found or with a rejected read leaves
\* the cache as it was; no call removes or changes an entry
C37_CacheOnlyWalkedAddresses ==
    [][/\ CacheSound'
       /\ cacheTop \subseteq cacheTop'
       /\ \A dev \in DevKeys, ms \in ModelStrs :
             cacheAddr[dev][ms] # 0 => cacheAddr'[dev][ms] = cacheAddr[dev][ms]
       /\ (rdCalls' = rdCalls + 1
           /\ rdOutcome' \in {"SunSpecModelNotFoundError", "Model not found on device",
                              "Read failed", "Write failed"})
             => UNCHANGED <<cacheTop, cacheAddr>>]_vars

\* both devices have an entry for block 103, at different addresses, and the
\* last call ended with a rejected header read
C37_Witness ==
    /\ cacheAddr["10.0.0.5:1"]["103"] = 40002
    /\ cacheAddr["10.0.0.5:2"]["103"] = 40070
    /\ rdOutcome = "Read failed"

\* the chain of device d as findModelAddress reads it: <<id, length>> headers
ListHeaders(d) == [k \in 1..Len(ListChain(d)) |-> <<ListChain(d)[k], BlockLen - 2>>]

\* the register readSinglePoint reads for the item: the address
\* findModelAddress returns plus the offset of the field
SingleFieldAddress(item) ==
    WalkChain(ListHeaders(item.device), BASE_ADDR_40002, item.model, 0)[1]
        + SizeBefore(ModelPoints, FindPoint(ModelPoints, item.point))

\* the register readMultiplePoints reads for the item
BatchFieldAddress(item) ==
    AddressOf(WalkedAddresses[item.device], item.model)
        + SizeBefore(ModelPoints, FindPoint(ModelPoints, item.point))

\* C38: for an item whose block is on its device, the batch read and the
\* single read address the same register, and the batch slot holds the value
\* the single read decodes
C38_BatchReadsSameRegister ==
    lsPc = "sent" =>
        \A i \in 1..Len(lsItems) :
            (/\ lsItems[i].device \notin lsFailed
             /\ AddressOf(WalkedAddresses[lsItems[i].device], lsItems[i].model) # 0)
            => /\ BatchFieldAddress(lsItems[i]) = SingleFieldAddress(lsItems[i])
               /\ lsFinal[i] =
                     FetchPointValue(ModelPoints,
                         RegsFrom(lsItems[i].device,
                                  WalkChain(ListHeaders(lsItems[i].device), BASE_ADDR_40002,
                                            lsItems[i].model, 0)[1]),
                         lsItems[i].point, lsRound, FALSE)

\* ------------------------------------------------------------------------
\* Properties of the field operations
\* ------------------------------------------------------------------------
\* the offset the schema gives a field: the declared one, else the sizes of
\* the fields before it
RECURSIVE SizesUpTo(_, _)
SizesUpTo(points, n) ==
    IF n = 0 THEN 0
    ELSE SizesUpTo(points, n - 1)
         + (IF "size" \in DOMAIN points[n] THEN points[n].size
            ELSE IF points[n].type \in {"int32", "uint32", "acc32", "float32"} THEN 2
            ELSE IF points[n].type \in {"int64", "uint64", "acc64", "float64"} THEN 4
            ELSE 1)

FieldOffset(points, i) ==
    IF "offset" \in DOMAIN points[i] THEN points[i].offset ELSE SizesUpTo(points, i - 1)

\* the words of field i of the block
FieldWords(points, regs, i) ==
    [k \in 1..(SizesUpTo(points, i) - SizesUpTo(points, i - 1)) |->
        regs[FieldOffset(points, i) + k]]

\* the fields an implemented-fields scan is to return, by index
Reportable(points, regs, i) ==
    /\ points[i].type \notin {"pad", "sunssf"}
    /\ ~(/\ points[i].type \in SentinelTypes
         /\ IsNotImplemented(FullRaw(points[i].type, FieldWords(points, regs, i)),
                             points[i].type))

RECURSIVE ReportableFrom(_, _, _)
ReportableFrom(points, regs, i) ==
    IF i > Len(points) THEN <<>>
    ELSE (IF Reportable(points, regs, i) THEN <<points[i].name>> ELSE <<>>)
         \o ReportableFrom(points, regs, i + 1)

\* C39: the scan issues one read of at most 120 registers and returns, in
\* schema order, the fields that are neither padding nor scale factor and do
\* not hold the sentinel of their type: the fields the single-field decoder
\* returns a value for
C39_ScanMatchesDecoder ==
    (bkPc = "done" /\ bkOp = "scanImplementedPoints" /\ ~bkFailed) =>
        /\ bkReads = 1
        /\ bkScan = ReportableFrom(bkPoints, bkRegs, 1)
        /\ \A i \in 1..Len(bkPoints) :
              bkPoints[i].type \notin {"pad", "sunssf"} =>
                  ((\E k \in 1..Len(bkScan) : bkScan[k] = bkPoints[i].name)
                      <=> ~FetchPointValue(bkPoints, bkRegs, bkPoints[i].name, FALSE, FALSE).null)

\* C39 on the blocks whose fields lie inside the registers read and whose
\* types have a sentinel test in both functions
C39_ScanOfTestedTypes ==
    (/\ bkPc = "done" /\ bkOp = "scanImplementedPoints" /\ ~bkFailed
     /\ bkPoints = ModelPoints /\ bkLen = BlockSpan(bkPoints)
     /\ bkPoint \notin {"WH", "Evt"}) =>
        /\ bkReads = 1
        /\ bkScan = ReportableFrom(bkPoints, bkRegs, 1)

\* C40: the value read and the write are made at the field's declared offset,
\* or at the summed sizes of the fields before it when it declares none, and
\* the scale-factor read at the offset the same rule gives the scale-factor
\* field
C40_OneOffsetRule ==
    (bkPc = "done" /\ bkOp \in {"fetchPointValue", "writeSinglePoint"}) =>
        /\ bkValueAt # -1 =>
              bkValueAt = FieldOffset(bkPoints, FindPoint(bkPoints, bkPoint))
        /\ bkSfAt # -1 =>
              bkSfAt = FieldOffset(bkPoints,
                           FindPoint(bkPoints, bkPoints[FindPoint(bkPoints, bkPoint)].sf))

\* C40 without the scale-factor read
C40_ValueAndWriteOffset ==
    (bkPc = "done" /\ bkOp \in {"fetchPointValue", "writeSinglePoint"} /\ bkValueAt # -1) =>
        bkValueAt = FieldOffset(bkPoints, FindPoint(bkPoints, bkPoint))
====
